---- MODULE Spec2Model ----
(***************************************************************************)
(* A model of floeterm: the Go terminal session engine (terminal-go), its  *)
(* history ring buffer, and the client-side chunk reorder buffer           *)
(* (terminal-web).  Each component has its own specification over its own  *)
(* group of variables; the other groups stay at their idle values.         *)
(***************************************************************************)
EXTENDS Integers, Sequences, FiniteSets, TLC

VARIABLES
    ring,        \* TerminalRingBuffer: the fields of the struct
    written,     \* history: payloads accepted by writeOwned since construction or Clear
    lastRead,    \* result of the last ReadAll call (<<>> before the first)
    sb,          \* SequenceBuffer: expectedSequence, pending, pendingInsertedAt, lastCleanupMs
    sbCfg,       \* SequenceBuffer: config (constructor argument merged over the defaults)
    sbNow,       \* Date.now() of the client
    sbReady,     \* the array returned by the last push
    sbReleased,  \* history: every chunk released since the last reset, in order
    sbPushed,    \* history: the chunks pushed since the last reset, in order
    sbElapsed,   \* history: time has passed since the last reset
    sbResets,    \* history: number of resets so far
    mgr,         \* Manager: sessions (the keys of the map), sessionOrder, eventHandler
    mMu,         \* Manager.mu
    sess,        \* Session: the fields of the session CreateSession makes
    sMu,         \* Session.mu
    createdDone, \* the createdDone channel of CreateSession: "none", "open", "closed"
    proc,        \* per PTY start: the PTY file, the child process, the procWaitDone channel
    task,        \* per task: position, return positions and local variables
    created,     \* history: OnTerminalSessionCreated is "none", "called" or "returned"
    closed,      \* history: the OnTerminalSessionClosed calls, in order
    delivered,   \* history: the sequence numbers of the OnTerminalData calls, in order
    hdone,       \* history: the handler method that returned last and the call it made
    outputs,     \* number of PTY reads that may still return bytes
    clientOps,   \* number of calls the client may still make
    exitedEarly, \* history: the first child exited before CreateSession returned
    hf,          \* history filter: the chunks given, Filter of them, Filter of that, calls made
    hist,        \* history request: requests served, startSeq, endSeq and the response of the last
    inp,         \* input side of a session: PTY, lastInput*, the clock, the PTY writes, the calls
    cn,          \* connections of a session: connections, PTY, its window size, resizes pending
    srv,         \* server: wsConnRefs, the stream clients, the broadcast in progress
    reg,         \* registry of the Manager with several sessions: the map, the order list
    co,          \* TerminalSessionsCoordinator: snapshot, pending deletions, refreshes, calls
    hk,          \* useTerminalInstance: sessionId, SequenceBuffer, queue, terminal writes
    api,         \* HTTP API: the last request, its reply, whether the session exists
    rs,          \* resize suppression of a session: window, clock, outputs written and broadcast
    wd,          \* working directory of a session: current directory, name, name events
    nm,          \* handler invocations of a reader task: lock, handler slot, name, calls
    sq           \* sequence counters of a session: ring buffer, sequenceNumber, data events

ringVars == <<ring, written, lastRead>>
sbVars == <<sb, sbCfg, sbNow, sbReady, sbReleased, sbPushed, sbElapsed, sbResets>>

mgrVars == <<mgr, mMu, sess, sMu, createdDone, proc, task, created, closed, delivered, hdone,
             outputs, clientOps, exitedEarly>>

\* The variables of the components that have one variable each.
extVars == <<hf, hist, inp, cn, srv>>

\* The variables of the further components.
lateVars == <<reg, co, hk, api, rs, wd, nm, sq>>

vars == <<ring, written, lastRead, sb, sbCfg, sbNow, sbReady, sbReleased, sbPushed, sbElapsed,
          sbResets, mgr, mMu, sess, sMu, createdDone, proc, task, created, closed, delivered,
          hdone, outputs, clientOps, exitedEarly, hf, hist, inp, cn, srv, reg, co, hk, api, rs, wd,
          nm, sq>>

\* What the actions of one component leave alone.
ringOther == <<sbVars, mgrVars, extVars, lateVars>>
sbOther == <<ringVars, mgrVars, extVars, lateVars>>
hfOther == <<ringVars, sbVars, mgrVars, hist, inp, cn, srv, lateVars>>
inpOther == <<ringVars, sbVars, mgrVars, hf, hist, cn, srv, lateVars>>
cnOther == <<ringVars, sbVars, mgrVars, hf, hist, inp, lateVars>>
srvOther == <<cnOther, cn>>
earlyVars == <<ringVars, sbVars, mgrVars, extVars>>
regOther == <<earlyVars, co, hk, api, rs, wd, nm, sq>>
coOther == <<earlyVars, reg, hk, api, rs, wd, nm, sq>>
hkOther == <<earlyVars, reg, co, api, rs, wd, nm, sq>>
apiOther == <<ringVars, sbVars, mgrVars, hf, hist, inp, srv, reg, co, hk, rs, wd, nm, sq>>
rsOther == <<earlyVars, reg, co, hk, api, wd, nm, sq>>
wdOther == <<earlyVars, reg, co, hk, api, rs, nm, sq>>
nmOther == <<earlyVars, reg, co, hk, api, rs, wd, sq>>
sqOther == <<earlyVars, reg, co, hk, api, rs, wd, nm>>

(***************************************************************************)
(* Bounds of the model.                                                    *)
(***************************************************************************)
MaxCap == 3          \* ring capacities 1..MaxCap
MaxLen == 2          \* payload lengths 0..MaxLen
MaxWrites == 5       \* writes per ring buffer
MaxReads == 1        \* ReadAll calls per ring buffer
MaxSeq == 4          \* chunk sequences 0..MaxSeq
MaxPushes == 4       \* pushes between two resets
MaxTime == 3         \* client clock 0..MaxTime
MaxResets == 1       \* resets of the SequenceBuffer
MaxGap == 2          \* config.maxSequenceGap in 1..MaxGap
MaxPend == 2         \* config.maxPendingChunks in 1..MaxPend
StallMs == 2         \* config.maxStallMs
CleanupExtraMs == 1  \* config.cleanupIntervalMs - config.maxStallMs
MaxOutputs == 1      \* PTY reads that return bytes
MaxClientOps == 1    \* calls of the client task
RaceOutputs == 2     \* PTY reads that return bytes, with two PTY starts
RaceClientOps == 1   \* calls of the client task, with two PTY starts
MaxData == 6         \* bytes in the chunk of a one-chunk list given to the filter
MaxShort == 2        \* bytes in each chunk of a two-chunk list given to the filter
MaxHistWrites == 4   \* writes to the ring buffer of the history specification
MaxHistSeq == 5      \* startSeq and endSeq in -1..MaxHistSeq
InputWindow == 2     \* config.inputWindow, in ticks of the input clock
MaxInputTime == 4    \* the input clock runs 0..MaxInputTime
MaxInputs == 3       \* calls of WriteDataWithSource
MaxConnOps == 4      \* calls on the connections of a session
MaxStreams == 2      \* event streams opened
SendCap == 1         \* capacity of the send channel of a stream (64 in the server)
MaxEvents == 3       \* events the session broadcasts
MaxAttach == 2       \* attach requests
MaxCreates == 3      \* CreateSession calls on the registry
MaxRegOps == 3       \* DeleteSession, exit and Cleanup calls on the registry
MaxCoSeq == 2        \* refreshes of the coordinator
MaxCoDeletes == 2    \* deleteSession calls on the coordinator
MaxHookSeq == 3      \* data events of a session, sequences 1..MaxHookSeq
MaxHookSwitches == 2 \* changes of the sessionId of the hook
MaxApiRequests == 3  \* requests to the HTTP API
CloseClientOps == 1  \* calls of the client task that also closes and attaches
InitialResizeSuppress == 2 \* config.initialResizeSuppressDuration, in ticks of the clock
ResizeSuppress == 1  \* config.resizeSuppressDuration, in ticks of the clock
MaxSuppressTime == 6 \* the clock of the suppression runs 0..MaxSuppressTime
MaxSuppressResizes == 2 \* resizes of the PTY
MaxSuppressOutputs == 3 \* outputs read from the PTY
MaxWdOutputs == 2    \* outputs with working-directory hints
MaxNameOutputs == 2  \* outputs read while the handler is replaced
MaxNameSets == 2     \* SetEventHandler calls while the reader runs
SeqRingSize == 2     \* capacity of the ring buffer of the session
MaxSeqTime == 3      \* the clock of the session stops here
MaxSeqReads == 3     \* reads of the PTY
MaxSeqClears == 2    \* ClearHistory calls

(***************************************************************************)
(* Helpers.                                                                *)
(***************************************************************************)
RECURSIVE SumSeq(_)
SumSeq(s) == IF s = <<>> THEN 0 ELSE Head(s) + SumSeq(Tail(s))

\* The k-th payload written: len bytes, all equal to k, so that payloads of
\* different writes differ and sizes vary.
Payload(k, len) == [i \in 1..len |-> k]

(***************************************************************************)
(* TerminalRingBuffer (ring buffer source file).                           *)
(***************************************************************************)
DefaultRingSize == 2048

\* TerminalDataChunk{}: the zero value of a slot (Data is the nil slice).
ZeroChunk == [Sequence |-> 0, Data |-> <<>>, IsNil |-> TRUE, Size |-> 0]

NewTerminalRingBuffer(size) ==
    LET n == IF size <= 0 THEN DefaultRingSize ELSE size IN
    [chunks |-> [i \in 0..(n - 1) |-> ZeroChunk],
     size |-> n, head |-> 0, tail |-> 0, full |-> FALSE,
     totalBytes |-> 0, writeCount |-> 0, readCount |-> 0, nextSequence |-> 1]

\* Mutant of writeOwned: the overwritten chunk's size is not subtracted.
WriteOwnedNoDecrement(rb, data) ==
    IF Len(data) = 0 THEN rb
    ELSE LET tail1 == IF rb.full THEN (rb.tail + 1) % rb.size ELSE rb.tail
             chunk == [Sequence |-> rb.nextSequence, Data |-> data,
                       IsNil |-> FALSE, Size |-> Len(data)]
             head1 == (rb.head + 1) % rb.size
         IN [rb EXCEPT !.chunks[rb.head] = chunk,
                       !.tail = tail1,
                       !.totalBytes = rb.totalBytes + Len(data),
                       !.writeCount = rb.writeCount + 1,
                       !.nextSequence = rb.nextSequence + 1,
                       !.head = head1,
                       !.full = (head1 = tail1)]

\* Mutant of writeOwned: tail is not advanced when the oldest chunk is overwritten.
WriteOwnedNoTailAdvance(rb, data) ==
    IF Len(data) = 0 THEN rb
    ELSE LET old == rb.chunks[rb.head]
             bytes1 == IF rb.full THEN rb.totalBytes - old.Size ELSE rb.totalBytes
             chunk == [Sequence |-> rb.nextSequence, Data |-> data,
                       IsNil |-> FALSE, Size |-> Len(data)]
             head1 == (rb.head + 1) % rb.size
         IN [rb EXCEPT !.chunks[rb.head] = chunk,
                       !.totalBytes = bytes1 + Len(data),
                       !.writeCount = rb.writeCount + 1,
                       !.nextSequence = rb.nextSequence + 1,
                       !.head = head1,
                       !.full = (head1 = rb.tail)]

\* writeOwned: rejects an empty slice; when full, subtracts the size of the
\* chunk at head (the oldest) and advances tail; stamps the chunk with
\* nextSequence; advances head; full iff head = tail afterwards.
WriteOwned(rb, data) ==
    IF Len(data) = 0 THEN rb
    ELSE LET old == rb.chunks[rb.head]
             bytes1 == IF rb.full THEN rb.totalBytes - old.Size ELSE rb.totalBytes
             tail1 == IF rb.full THEN (rb.tail + 1) % rb.size ELSE rb.tail
             chunk == [Sequence |-> rb.nextSequence, Data |-> data,
                       IsNil |-> FALSE, Size |-> Len(data)]
             head1 == (rb.head + 1) % rb.size
         IN [rb EXCEPT !.chunks[rb.head] = chunk,
                       !.tail = tail1,
                       !.totalBytes = bytes1 + Len(data),
                       !.writeCount = rb.writeCount + 1,
                       !.nextSequence = rb.nextSequence + 1,
                       !.head = head1,
                       !.full = (head1 = tail1)]

IsEmpty(rb) == ~rb.full /\ rb.head = rb.tail

GetUsedChunks(rb) ==
    IF rb.full THEN rb.size
    ELSE IF rb.head >= rb.tail THEN rb.head - rb.tail
    ELSE rb.size - rb.tail + rb.head

RECURSIVE CollectChunks(_, _, _)
\* The loop of ReadAll / ReadAllChunks: slots tail, tail+1, ... (mod size),
\* skipping slots whose Data is nil.
CollectChunks(rb, i, used) ==
    IF i >= used THEN <<>>
    ELSE LET c == rb.chunks[(rb.tail + i) % rb.size] IN
         (IF c.IsNil THEN <<>> ELSE <<c>>) \o CollectChunks(rb, i + 1, used)

ReadAllChunks(rb) ==
    IF IsEmpty(rb) THEN <<>> ELSE CollectChunks(rb, 0, GetUsedChunks(rb))

ReadAll(rb) ==
    LET cs == ReadAllChunks(rb) IN [i \in 1..Len(cs) |-> cs[i].Data]

\* Mutant of Clear: nextSequence is left as it is.
ClearKeepSequence(rb) ==
    [rb EXCEPT !.chunks = [i \in 0..(rb.size - 1) |-> ZeroChunk],
               !.head = 0, !.tail = 0, !.full = FALSE, !.totalBytes = 0]

\* Clear: every slot zeroed, head = tail = 0, not full, totalBytes = 0,
\* nextSequence = 1 (writeCount and readCount are kept).
Clear(rb) ==
    [rb EXCEPT !.chunks = [i \in 0..(rb.size - 1) |-> ZeroChunk],
               !.head = 0, !.tail = 0, !.full = FALSE, !.totalBytes = 0,
               !.nextSequence = 1]

\* GetStats().TotalBytes
StatsTotalBytes(rb) == rb.totalBytes

(***************************************************************************)
(* SequenceBuffer (terminal-web/src/internal/SequenceBuffer.ts).           *)
(* The buffer is the record sb = [expected, pending, insertedAt,           *)
(* lastCleanupMs]; pending and insertedAt are Maps keyed by sequence,      *)
(* modelled as functions whose domain is the key set.  A chunk is the      *)
(* record [sequence]: the buffer looks at no other field.                  *)
(***************************************************************************)
EmptyMap == [x \in {} |-> 0]
MapPut(f, k, v) == [x \in (DOMAIN f) \cup {k} |-> IF x = k THEN v ELSE f[x]]
MapDelete(f, k) == [x \in (DOMAIN f) \ {k} |-> f[x]]
MapKeep(f, keys) == [x \in (DOMAIN f) \cap keys |-> f[x]]
MinOf(S) == CHOOSE x \in S : \A y \in S : x <= y

\* defaultConfig
DefaultMaxPendingChunks == 40
DefaultMaxSequenceGap == 32
DefaultCleanupIntervalMs == 5000
DefaultForceCleanupThreshold == 60
DefaultMaxStallMs == 500

\* new SequenceBuffer(config) at time now; expectedSequence = 1.
NewSequenceBuffer(now) ==
    [expected |-> 1, pending |-> EmptyMap, insertedAt |-> EmptyMap, lastCleanupMs |-> now]

\* reset(startSequence)
SBReset(st, startSequence, now) ==
    [expected |-> IF startSequence > 1 THEN startSequence ELSE 1,
     pending |-> EmptyMap, insertedAt |-> EmptyMap, lastCleanupMs |-> now]

\* cleanupIfNeeded(now)
CleanupIfNeeded(st, cfg, now) ==
    IF Cardinality(DOMAIN st.pending) >= cfg.forceCleanupThreshold
    THEN [st EXCEPT !.pending = EmptyMap, !.insertedAt = EmptyMap, !.lastCleanupMs = now]
    ELSE IF now - st.lastCleanupMs < cfg.cleanupIntervalMs THEN st
    ELSE LET cutoff == st.expected + cfg.maxSequenceGap
             keep == {q \in DOMAIN st.pending : ~(q < st.expected \/ q > cutoff)}
         IN [st EXCEPT !.pending = MapKeep(st.pending, keep),
                       !.insertedAt = MapKeep(st.insertedAt, keep),
                       !.lastCleanupMs = now]

RECURSIVE Drain(_)
\* while (pending.has(expected)) { ready.push(pending.get(expected)); delete; expected += 1 }
Drain(st) ==
    IF st.expected \in DOMAIN st.pending
    THEN LET r == Drain([st EXCEPT !.pending = MapDelete(st.pending, st.expected),
                                   !.insertedAt = MapDelete(st.insertedAt, st.expected),
                                   !.expected = st.expected + 1])
         IN [st |-> r.st, ready |-> <<st.pending[st.expected]>> \o r.ready]
    ELSE [st |-> st, ready |-> <<>>]

\* Mutant of flushIfStalled: the stall is never broken.
FlushIfStalledNever(st, cfg, now) == [st |-> st, ready |-> <<>>]

\* flushIfStalled(now): when the smallest pending sequence is ahead of expected
\* and has been pending for at least maxStallMs, expected jumps to it and the
\* contiguous run from it is released.
FlushIfStalled(st, cfg, now) ==
    IF DOMAIN st.pending = {} THEN [st |-> st, ready |-> <<>>]
    ELSE LET minPendingSeq == MinOf(DOMAIN st.pending)
             minPendingInsertedAt ==
                 IF minPendingSeq \in DOMAIN st.insertedAt
                 THEN st.insertedAt[minPendingSeq] ELSE now
         IN IF minPendingSeq <= st.expected THEN [st |-> st, ready |-> <<>>]
            ELSE IF now - minPendingInsertedAt < cfg.maxStallMs
                 THEN [st |-> st, ready |-> <<>>]
            ELSE Drain([st EXCEPT !.expected = minPendingSeq])

\* withinGap && pending.size < maxPendingChunks
Bufferable(st, cfg, sequence) ==
    /\ sequence > st.expected
    /\ sequence <= st.expected + cfg.maxSequenceGap
    /\ Cardinality(DOMAIN st.pending) < cfg.maxPendingChunks

\* Mutant of the sequenced part of push: the jump leaves expected where it was.
PushSequencedJumpKeepsExpected(st, cfg, chunk, now) ==
    LET sequence == chunk.sequence IN
    IF sequence = st.expected
    THEN LET r == Drain([st EXCEPT !.expected = st.expected + 1])
         IN [st |-> r.st, ready |-> <<chunk>> \o r.ready]
    ELSE IF Bufferable(st, cfg, sequence)
    THEN [st |-> [st EXCEPT !.pending = MapPut(st.pending, sequence, chunk),
                            !.insertedAt = IF sequence \in DOMAIN st.insertedAt
                                           THEN st.insertedAt
                                           ELSE MapPut(st.insertedAt, sequence, now)],
          ready |-> <<>>]
    ELSE IF sequence > st.expected
    THEN [st |-> [st EXCEPT !.pending = EmptyMap, !.insertedAt = EmptyMap],
          ready |-> <<chunk>>]
    ELSE [st |-> st, ready |-> <<chunk>>]

\* Mutant of the sequenced part of push: the jump keeps the pending chunks.
PushSequencedJumpKeepsPending(st, cfg, chunk, now) ==
    LET sequence == chunk.sequence IN
    IF sequence = st.expected
    THEN LET r == Drain([st EXCEPT !.expected = st.expected + 1])
         IN [st |-> r.st, ready |-> <<chunk>> \o r.ready]
    ELSE IF Bufferable(st, cfg, sequence)
    THEN [st |-> [st EXCEPT !.pending = MapPut(st.pending, sequence, chunk),
                            !.insertedAt = IF sequence \in DOMAIN st.insertedAt
                                           THEN st.insertedAt
                                           ELSE MapPut(st.insertedAt, sequence, now)],
          ready |-> <<>>]
    ELSE IF sequence > st.expected
    THEN [st |-> [st EXCEPT !.expected = sequence + 1], ready |-> <<chunk>>]
    ELSE [st |-> st, ready |-> <<chunk>>]

\* Mutant of the sequenced part of push: the contiguous pending run is not drained.
PushSequencedNoDrain(st, cfg, chunk, now) ==
    LET sequence == chunk.sequence IN
    IF sequence = st.expected
    THEN [st |-> [st EXCEPT !.expected = st.expected + 1], ready |-> <<chunk>>]
    ELSE IF Bufferable(st, cfg, sequence)
    THEN [st |-> [st EXCEPT !.pending = MapPut(st.pending, sequence, chunk),
                            !.insertedAt = IF sequence \in DOMAIN st.insertedAt
                                           THEN st.insertedAt
                                           ELSE MapPut(st.insertedAt, sequence, now)],
          ready |-> <<>>]
    ELSE IF sequence > st.expected
    THEN [st |-> [st EXCEPT !.expected = sequence + 1,
                            !.pending = EmptyMap, !.insertedAt = EmptyMap],
          ready |-> <<chunk>>]
    ELSE [st |-> st, ready |-> <<chunk>>]

\* push, after cleanupIfNeeded and flushIfStalled (lines 52-85): the expected
\* chunk is released with the contiguous pending run; a chunk ahead within the
\* gap is buffered while pending has room; any other chunk is released at
\* once, and when it is ahead of expected, expected jumps past it and pending
\* is discarded.
PushSequenced(st, cfg, chunk, now) ==
    LET sequence == chunk.sequence IN
    IF sequence = st.expected
    THEN LET r == Drain([st EXCEPT !.expected = st.expected + 1])
         IN [st |-> r.st, ready |-> <<chunk>> \o r.ready]
    ELSE IF Bufferable(st, cfg, sequence)
    THEN [st |-> [st EXCEPT !.pending = MapPut(st.pending, sequence, chunk),
                            !.insertedAt = IF sequence \in DOMAIN st.insertedAt
                                           THEN st.insertedAt
                                           ELSE MapPut(st.insertedAt, sequence, now)],
          ready |-> <<>>]
    ELSE IF sequence > st.expected
    THEN [st |-> [st EXCEPT !.expected = sequence + 1,
                            !.pending = EmptyMap, !.insertedAt = EmptyMap],
          ready |-> <<chunk>>]
    ELSE [st |-> st, ready |-> <<chunk>>]

\* The buffer and the chunks released once cleanupIfNeeded and flushIfStalled
\* of a push at time now have run.
AfterFlush(st, cfg, now) == FlushIfStalled(CleanupIfNeeded(st, cfg, now), cfg, now)

\* push(chunk, now): a chunk whose sequence is below 1 passes through untouched.
SBPush(st, cfg, chunk, now) ==
    IF chunk.sequence < 1 THEN [st |-> st, ready |-> <<chunk>>]
    ELSE LET f == AfterFlush(st, cfg, now)
             p == PushSequenced(f.st, cfg, chunk, now)
         IN [st |-> p.st, ready |-> f.ready \o p.ready]

(***************************************************************************)
(* Manager and Session (terminal-go).  One session is created by          *)
(* CreateSession; its PTY can be started twice (by CreateSession and by a  *)
(* later ActivateSession), each start spawning a reader and a waiter task. *)
(* A task is a record: pc is its position, stack the positions its calls   *)
(* return to, the other fields its local variables.  A nil pointer and a   *)
(* nil channel are 0; a PTY file, a child process and a procWaitDone       *)
(* channel are named by the number of the start that made them.            *)
(***************************************************************************)
SessionId == "s1"
NoHandler == "nil"
TheHandler == "h"
NoTask == <<"nil", 0>>
Starts == {1, 2}
Reader(g) == <<"reader", g>>
Waiter(g) == <<"waiter", g>>
Creator == <<"creator", 0>>
Client == <<"client", 0>>
Tasks == {Creator, Client} \cup {Reader(g) : g \in Starts} \cup {Waiter(g) : g \in Starts}

\* sync.RWMutex: the task holding the write lock and the tasks holding read locks.
FreeMutex == [w |-> NoTask, r |-> {}]
CanLock(mu) == mu.w = NoTask /\ mu.r = {}
CanRLock(mu) == mu.w = NoTask
Lock(mu, t) == [mu EXCEPT !.w = t]
Unlock(mu, t) == [mu EXCEPT !.w = NoTask]
RLock(mu, t) == [mu EXCEPT !.r = @ \cup {t}]

RUnlock(mu, t) == [mu EXCEPT !.r = @ \ {t}]

\* Mutant of the handler read of broadcastData: the read lock is still held
\* when the handler is invoked.
ReadHandlerKeepsLock(mu, t) == RLock(mu, t)

\* broadcastData, lines 407-412: RLock, read s.eventHandler, RUnlock.
ReadHandler(mu, t) == RUnlock(RLock(mu, t), t)

\* A critical section that blocks on nothing, taken in one step.
WithLock(mu, t) == Unlock(Lock(mu, t), t)
WithRLock(mu, t) == RUnlock(RLock(mu, t), t)

\* NewManager: no session, no handler.
NewManager == [sessions |-> {}, sessionOrder |-> <<>>, eventHandler |-> NoHandler]

\* The Session literal of CreateSession.
NewSession(initialHandler) ==
    [isActive |-> FALSE, PTY |-> 0, Cmd |-> 0, procWaitDone |-> 0,
     cancelled |-> FALSE, eventHandler |-> initialHandler, sequenceNumber |-> 0,
     connections |-> {}, cleanups |-> 0, overlapped |-> FALSE]

\* No Session has been made yet.
NoSession == NewSession(NoHandler)

\* A PTY start that has not happened.
NoProc == [pty |-> "none", child |-> "none", waitDone |-> "none"]

NewTask(pc) ==
    [pc |-> pc, stack |-> <<>>, handler |-> NoHandler, dh |-> NoHandler,
     cmd |-> 0, ptyFile |-> 0, done |-> 0, seqNum |-> 0, op |-> "none",
     origin |-> "none", arg |-> NoHandler, err |-> "nil"]

\* The loop of detachSession over sessionOrder: the first entry equal to id is cut
\* out (break).
RemoveFirst(order, id) ==
    IF \A i \in 1..Len(order) : order[i] # id
    THEN order
    ELSE LET i == CHOOSE k \in 1..Len(order) :
                     order[k] = id /\ \A l \in 1..(k - 1) : order[l] # id
         IN  SubSeq(order, 1, i - 1) \o SubSeq(order, i + 1, Len(order))

\* A variant of detachSession that reports the session removed and leaves it in the
\* map and the order list.
DetachSessionKeepsSession(m, id) ==
    IF id \notin m.sessions
    THEN [mgr |-> m, handler |-> NoHandler, removed |-> FALSE]
    ELSE [mgr |-> m, handler |-> m.eventHandler, removed |-> TRUE]

\* detachSession: the session leaves the map and the order list; the handler
\* returned is the manager's current one.
DetachSession(m, id) ==
    IF id \notin m.sessions
    THEN [mgr |-> m, handler |-> NoHandler, removed |-> FALSE]
    ELSE [mgr |-> [m EXCEPT !.sessions = @ \ {id},
                            !.sessionOrder = RemoveFirst(@, id)],
          handler |-> m.eventHandler, removed |-> TRUE]

\* Mutant of the wait on the created latch: onExit does not wait.
CreatedDoneNotAwaited(latch) == TRUE

\* <-createdDone in onExit: passes once CreateSession has returned.
AwaitCreatedDone(latch) == latch = "closed"

\* The two time.After(2 * time.Second) cases of cleanup: the wait for
\* procWaitDone gives up after four seconds.
CleanupTimeout == TRUE

\* The first start that has not been used yet (0 when both have).
FreeStart(p) ==
    IF p[1].child = "none" THEN 1 ELSE IF p[2].child = "none" THEN 2 ELSE 0

(***************************************************************************)
(* DefaultHistoryFilter (history filter source file).  A byte is its       *)
(* number; data[i] of the source, counted from 0, is Byte(data, i).  The   *)
(* loops over i, j, k and end are recursive operators.  strconv.Atoi fails *)
(* only beyond 64 bits, which no data of the lengths used here reaches.    *)
(***************************************************************************)
ESC == 27
BEL == 7
Space == 32
Dollar == 36
Digit0 == 48
Digit1 == 49
Digit4 == 52
Digit6 == 54
Digit9 == 57
Semicolon == 59
Greater == 62
Question == 63
UpperR == 82
LBracket == 91
Backslash == 92
RBracket == 93
Lower_c == 99
Lower_h == 104
Lower_l == 108
Lower_n == 110
Lower_p == 112
Lower_q == 113
Lower_u == 117

Digits == Digit0..Digit9
DigitsOrSemicolon == Digits \cup {Semicolon}

Byte(data, i) == data[i + 1]

\* for j < len(data) && data[j] in set { j++ }
RECURSIVE SkipWhile(_, _, _)
SkipWhile(data, j, set) ==
    IF j < Len(data) /\ Byte(data, j) \in set THEN SkipWhile(data, j + 1, set) ELSE j

\* The decimal number written in data[numStart:j].
RECURSIVE Atoi(_, _, _)
Atoi(data, numStart, j) ==
    IF numStart >= j THEN 0
    ELSE Atoi(data, numStart, j - 1) * 10 + (Byte(data, j - 1) - Digit0)

\* The scan for the terminator of an OSC sequence: just after a BEL, just
\* after ESC \, or len(data) when there is none.
RECURSIVE OSCTerminator(_, _)
OSCTerminator(data, end) ==
    IF end >= Len(data) THEN end
    ELSE IF Byte(data, end) = BEL THEN end + 1
    ELSE IF Byte(data, end) = ESC /\ end + 1 < Len(data) /\ Byte(data, end + 1) = Backslash
         THEN end + 2
    ELSE OSCTerminator(data, end + 1)

\* filterOSCColorSequences at position i: the position after the span that
\* is removed, or 0 when data[i] is copied.
OSCColorEnd(data, i) ==
    IF Byte(data, i) = ESC /\ i + 2 < Len(data) /\ Byte(data, i + 1) = RBracket
    THEN LET numStart == SkipWhile(data, i + 2, {Space})
             j == SkipWhile(data, numStart, Digits)
         IN IF numStart = j THEN 0
            ELSE IF Atoi(data, numStart, j) \in {10, 11} /\ j < Len(data)
                    /\ Byte(data, j) = Semicolon
                 THEN LET end == OSCTerminator(data, j + 1) IN
                      IF end <= Len(data) /\ end > j + 1 THEN end ELSE 0
                 ELSE 0
    ELSE 0

\* filterCSIDeviceAttributeSequences at position i.
CSIDeviceAttributeEnd(data, i) ==
    IF Byte(data, i) = ESC /\ i + 3 < Len(data) /\ Byte(data, i + 1) = LBracket
       /\ Byte(data, i + 2) \in {Question, Greater}
    THEN LET j == SkipWhile(data, i + 3, DigitsOrSemicolon) IN
         IF j < Len(data) /\ Byte(data, j) = Lower_c THEN j + 1 ELSE 0
    ELSE 0

\* filterCSICursorPositionReportSequences at position i.
CSICursorPositionReportEnd(data, i) ==
    IF Byte(data, i) = ESC /\ i + 2 < Len(data) /\ Byte(data, i + 1) = LBracket
    THEN LET numStart == i + 2
             j == SkipWhile(data, numStart, DigitsOrSemicolon)
         IN IF numStart = j THEN 0
            ELSE IF j < Len(data) /\ Byte(data, j) = UpperR THEN j + 1 ELSE 0
    ELSE 0

\* The CSI cases of filterTerminalQuerySequences, tried in the order of the
\* source, j = i + 2 being the byte after ESC [.
TerminalQueryCSIEnd(data, j) ==
    LET n == Len(data)
        is(k, b) == k < n /\ Byte(data, k) = b
        kDigits == SkipWhile(data, j + 1, Digits)
        kParams == SkipWhile(data, j + 1, DigitsOrSemicolon)
        k == j + 1
    IN IF is(j, Lower_c) THEN j + 1
       ELSE IF is(j, Greater) /\ is(kDigits, Lower_c) THEN kDigits + 1
       ELSE IF is(j, Digit6) /\ is(k, Lower_n) THEN k + 1
       ELSE IF is(j, Question) /\ is(kDigits, Lower_u) THEN kDigits + 1
       ELSE IF is(j, Question) /\ is(kParams, Dollar) /\ is(kParams + 1, Lower_p)
            THEN kParams + 2
       ELSE IF is(j, Question) /\ k + 4 <= n /\ Byte(data, k) = Digit1
               /\ Byte(data, k + 1) = Digit0 /\ Byte(data, k + 2) = Digit0
               /\ Byte(data, k + 3) = Digit4
               /\ k + 4 < n /\ Byte(data, k + 4) \in {Lower_h, Lower_l}
            THEN k + 5
       ELSE IF is(j, Greater) /\ is(kDigits, Lower_q) THEN kDigits + 1
       ELSE 0

\* The OSC case of filterTerminalQuerySequences: ESC ] 10;? or 11;? up to the
\* terminator, or up to the end of the data when there is none.
TerminalQueryOSCEnd(data, i) ==
    LET numStart == SkipWhile(data, i + 2, {Space})
        j == SkipWhile(data, numStart, Digits)
    IN IF numStart < j /\ Atoi(data, numStart, j) \in {10, 11}
          /\ j < Len(data) /\ Byte(data, j) = Semicolon
          /\ j + 1 < Len(data) /\ Byte(data, j + 1) = Question
       THEN OSCTerminator(data, j + 2)
       ELSE 0

\* filterTerminalQuerySequences at position i.
TerminalQueryEnd(data, i) ==
    IF Byte(data, i) # ESC \/ ~(i + 1 < Len(data)) THEN 0
    ELSE IF Byte(data, i + 1) = LBracket THEN TerminalQueryCSIEnd(data, i + 2)
    ELSE IF Byte(data, i + 1) = RBracket THEN TerminalQueryOSCEnd(data, i)
    ELSE 0

\* The loop "for i < len(data)" of the four passes: a span found at i is
\* skipped, any other byte is appended to out.
RECURSIVE FilterOSCColorLoop(_, _)
FilterOSCColorLoop(data, i) ==
    IF i >= Len(data) THEN <<>>
    ELSE LET end == OSCColorEnd(data, i) IN
         IF end # 0 THEN FilterOSCColorLoop(data, end)
         ELSE <<Byte(data, i)>> \o FilterOSCColorLoop(data, i + 1)

RECURSIVE FilterCSIDeviceAttributeLoop(_, _)
FilterCSIDeviceAttributeLoop(data, i) ==
    IF i >= Len(data) THEN <<>>
    ELSE LET end == CSIDeviceAttributeEnd(data, i) IN
         IF end # 0 THEN FilterCSIDeviceAttributeLoop(data, end)
         ELSE <<Byte(data, i)>> \o FilterCSIDeviceAttributeLoop(data, i + 1)

RECURSIVE FilterCSICursorPositionReportLoop(_, _)
FilterCSICursorPositionReportLoop(data, i) ==
    IF i >= Len(data) THEN <<>>
    ELSE LET end == CSICursorPositionReportEnd(data, i) IN
         IF end # 0 THEN FilterCSICursorPositionReportLoop(data, end)
         ELSE <<Byte(data, i)>> \o FilterCSICursorPositionReportLoop(data, i + 1)

RECURSIVE FilterTerminalQueryLoop(_, _)
FilterTerminalQueryLoop(data, i) ==
    IF i >= Len(data) THEN <<>>
    ELSE LET end == TerminalQueryEnd(data, i) IN
         IF end # 0 THEN FilterTerminalQueryLoop(data, end)
         ELSE <<Byte(data, i)>> \o FilterTerminalQueryLoop(data, i + 1)

FilterOSCColorSequences(data) == FilterOSCColorLoop(data, 0)
FilterCSIDeviceAttributeSequences(data) == FilterCSIDeviceAttributeLoop(data, 0)
FilterCSICursorPositionReportSequences(data) == FilterCSICursorPositionReportLoop(data, 0)
FilterTerminalQuerySequences(data) == FilterTerminalQueryLoop(data, 0)

\* The four passes over the data of one chunk, in the order of Filter.
FilterData(data) ==
    FilterTerminalQuerySequences(
        FilterCSICursorPositionReportSequences(
            FilterCSIDeviceAttributeSequences(
                FilterOSCColorSequences(data))))

\* DefaultHistoryFilter.Filter: a chunk without data is kept as it is, a chunk
\* whose data is empty after the passes is dropped, any other chunk is kept
\* with the filtered data (Size keeps the length recorded at the write).
RECURSIVE Filter(_)
Filter(chunks) ==
    IF chunks = <<>> THEN <<>>
    ELSE LET chunk == Head(chunks)
             newData == FilterData(chunk.Data)
         IN (IF Len(chunk.Data) = 0 THEN <<chunk>>
             ELSE IF Len(newData) = 0 THEN <<>>
             ELSE <<[chunk EXCEPT !.Data = newData]>>) \o Filter(Tail(chunks))

(***************************************************************************)
(* History requests: Session.GetHistoryFromSequence and the "history" case *)
(* of Server.handleSessionByID.                                            *)
(***************************************************************************)
\* Mutant of GetHistoryFromSequence: the chunk numbered fromSeq is left out.
GetHistoryAfterSequence(rb, fromSeq) ==
    LET chunks == ReadAllChunks(rb) IN
    IF Len(chunks) = 0 THEN <<>>
    ELSE Filter(IF fromSeq > 0
                THEN SelectSeq(chunks, LAMBDA chunk : chunk.Sequence > fromSeq)
                ELSE chunks)

\* GetHistoryFromSequence: the chunks read from the ring buffer, those with
\* Sequence >= fromSeq when fromSeq > 0, passed through config.historyFilter
\* (DefaultHistoryFilter unless the configuration names another).
GetHistoryFromSequence(rb, fromSeq) ==
    LET chunks == ReadAllChunks(rb) IN
    IF Len(chunks) = 0 THEN <<>>
    ELSE Filter(IF fromSeq > 0
                THEN SelectSeq(chunks, LAMBDA chunk : chunk.Sequence >= fromSeq)
                ELSE chunks)

\* base64.StdEncoding.EncodeToString(chunk.Data): an injective encoding.
Base64(data) == <<"base64", data>>

\* The loop of the history case: the chunks are copied to the response, the
\* loop breaks at the first chunk whose Sequence exceeds a positive endSeq.
RECURSIVE HistoryResponse(_, _)
HistoryResponse(chunks, endSeq) ==
    IF chunks = <<>> THEN <<>>
    ELSE LET chunk == Head(chunks) IN
         IF endSeq > 0 /\ chunk.Sequence > endSeq THEN <<>>
         ELSE <<[Sequence |-> chunk.Sequence, DataBase64 |-> Base64(chunk.Data)]>>
              \o HistoryResponse(Tail(chunks), endSeq)

(***************************************************************************)
(* Session.WriteDataWithSource: the input side of a session.  The session  *)
(* fields it uses are the record inp; the clock is inp.now, in units of    *)
(* which the input window is InputWindow.                                  *)
(***************************************************************************)
\* sha256.Sum256(data): no two inputs used here share a digest.
Sha256(data) == <<"sha256", data>>

\* The zero value of lastInputHash, the digest of no input.
ZeroHash == <<"zero", <<>>>>

\* time.Since(t)
Since(now, t) == now - t

\* Mutant of the duplicate test: the time of the last input is not looked at.
IsDuplicateInputAnyTime(s, data) ==
    /\ s.lastInputLen = Len(data)
    /\ s.lastInputHash = Sha256(data)

\* The duplicate test of WriteDataWithSource: same length, same digest, and
\* less than inputWindow since the last input that was written.
IsDuplicateInput(s, data) ==
    /\ s.lastInputLen = Len(data)
    /\ s.lastInputHash = Sha256(data)
    /\ Since(s.now, s.lastInputTime) < InputWindow

\* WriteDataWithSource(data, sourceConnID) at time s.now: the result and the
\* session afterwards.  writeOk tells whether s.PTY.Write succeeds.
WriteInput(s, data, sourceConnID, writeOk) ==
    IF ~s.PTY THEN [sess |-> s, result |-> "PTY not available"]
    ELSE IF IsDuplicateInput(s, data) THEN [sess |-> s, result |-> "dropped"]
    ELSE IF ~writeOk THEN [sess |-> s, result |-> "write error"]
    ELSE [sess |-> [s EXCEPT !.ptyWrites = Append(@, data),
                             !.lastInputSource = sourceConnID,
                             !.lastInputTime = s.now,
                             !.lastInputHash = Sha256(data),
                             !.lastInputLen = Len(data)],
          result |-> "written"]

\* The input fields of a new Session: no input yet, the zero time lying at
\* least an input window before any call.
NewInput(pty) ==
    [PTY |-> pty, lastInputLen |-> 0, lastInputHash |-> ZeroHash,
     lastInputTime |-> 0 - InputWindow, lastInputSource |-> "", now |-> 0,
     ptyWrites |-> <<>>, calls |-> <<>>]

(***************************************************************************)
(* Connections of a session and the size of its PTY.  cn holds the fields  *)
(* of the Session these functions use: connections (connection id ->       *)
(* cols, rows), PTY (TRUE when the file is there), the window size of the  *)
(* PTY, isResizing, and the resize goroutines spawned and not yet run.     *)
(***************************************************************************)
defaultCols == 80
defaultRows == 24
noMinimum == 999999
minTerminalCols == 20
minTerminalRows == 5
maxTerminalCols == 500
maxTerminalRows == 200
Uint16Range == 65536

\* uint16(n) of an int.
Uint16(n) == n % Uint16Range

Winsize(cols, rows) == [Cols |-> Uint16(cols), Rows |-> Uint16(rows)]

ConnectionInfo(cols, rows) == [Cols |-> cols, Rows |-> rows]

\* The least of a finite non-empty set of integers.
Least(S) == CHOOSE m \in S : \A n \in S : m <= n

\* A variant that forgets to raise the minimum to 20 columns and 5 rows.
getMinimumTerminalSizeUnraised(connections) ==
    IF DOMAIN connections = {}
    THEN <<defaultCols, defaultRows>>
    ELSE <<Least({noMinimum} \cup {connections[c].Cols : c \in DOMAIN connections}),
           Least({noMinimum} \cup {connections[c].Rows : c \in DOMAIN connections})>>

\* getMinimumTerminalSize: the loop lowers minCols and minRows from 999999.
getMinimumTerminalSize(connections) ==
    IF DOMAIN connections = {}
    THEN <<defaultCols, defaultRows>>
    ELSE LET minCols == Least({noMinimum} \cup {connections[c].Cols : c \in DOMAIN connections})
             minRows == Least({noMinimum} \cup {connections[c].Rows : c \in DOMAIN connections})
         IN  <<IF minCols < minTerminalCols THEN minTerminalCols ELSE minCols,
               IF minRows < minTerminalRows THEN minTerminalRows ELSE minRows>>

\* go func() { s.resizePTYToMinimumSize() }()
SpawnResize(s) == [s EXCEPT !.pending = @ + 1, !.triggered = @ + 1]

AddConnection(s, connectionID, cols, rows) ==
    IF connectionID = ""
    THEN s
    ELSE SpawnResize([s EXCEPT !.connections =
             [c \in DOMAIN @ \cup {connectionID} |->
                 IF c = connectionID THEN ConnectionInfo(cols, rows) ELSE @[c]]])

RemoveConnection(s, connectionID) ==
    IF connectionID = "" \/ connectionID \notin DOMAIN s.connections
    THEN s
    ELSE SpawnResize([s EXCEPT !.connections =
             [c \in DOMAIN @ \ {connectionID} |-> @[c]]])

UpdateConnectionSize(s, connectionID, cols, rows) ==
    IF connectionID = "" \/ connectionID \notin DOMAIN s.connections
    THEN s
    ELSE SpawnResize([s EXCEPT !.connections[connectionID] = ConnectionInfo(cols, rows)])

\* resizePTYToMinimumSize; setsizeOk is the outcome of pty.Setsize.
resizePTYToMinimumSize(s, setsizeOk) ==
    IF ~s.PTY
    THEN s
    ELSE LET size == getMinimumTerminalSize(s.connections)
         IN  IF setsizeOk
             THEN [s EXCEPT !.isResizing = TRUE,
                            !.winsize = Winsize(size[1], size[2]),
                            !.lastSetsize = "minimum"]
             ELSE [s EXCEPT !.isResizing = FALSE, !.failed = TRUE]

\* ResizePTY: the explicit resize.
ResizePTY(s, cols, rows, setsizeOk) ==
    IF ~s.PTY
    THEN s
    ELSE IF setsizeOk
         THEN [s EXCEPT !.isResizing = TRUE,
                        !.winsize = Winsize(cols, rows),
                        !.lastSetsize = "explicit"]
         ELSE [s EXCEPT !.isResizing = FALSE, !.failed = TRUE]

\* The session after startPTY(cols, rows), or before it when pty is FALSE.
NewConnections(pty, cols, rows) ==
    [connections |-> <<>>,
     PTY |-> pty,
     winsize |-> IF pty THEN Winsize(cols, rows) ELSE Winsize(0, 0),
     isResizing |-> pty,
     pending |-> 0,
     triggered |-> 0,
     failed |-> FALSE,
     lastSetsize |-> "start",
     ops |-> 0]

(***************************************************************************)
(* The event streams of the server, for one session.  srv holds            *)
(* wsConnRefs[sessionID] (connId -> number of registered streams), the     *)
(* wsClient of every stream with its send channel and its websocket, the   *)
(* broadcast in progress and the number of events broadcast so far.        *)
(* wsBySession[sessionID] is the set of the registered clients.            *)
(***************************************************************************)
Streams == 1..MaxStreams

NoClient ==
    [state |-> "none", connID |-> "", send |-> <<>>, conn |-> "none", written |-> <<>>,
     writeLoop |-> FALSE, missed |-> {}, shouldRemoveConn |-> FALSE]

NewServer ==
    [clients |-> [k \in Streams |-> NoClient],
     wsConnRefs |-> <<>>,
     clientsToSend |-> {},
     sequence |-> 0]

wsBySession(s) == {k \in Streams : s.clients[k].state = "registered"}

Refs(s, connID) == IF connID \in DOMAIN s.wsConnRefs THEN s.wsConnRefs[connID] ELSE 0

\* handleWS up to the read loop: the client, registerWS, go writeLoop.
registerWS(s, k, connID) ==
    [s EXCEPT
        !.wsConnRefs =
            IF connID # ""
            THEN [c \in DOMAIN @ \cup {connID} |-> Refs(s, c) + IF c = connID THEN 1 ELSE 0]
            ELSE @,
        !.clients[k] =
            [state |-> "registered", connID |-> connID, send |-> <<>>, conn |-> "open",
             written |-> <<>>, writeLoop |-> TRUE, missed |-> {}, shouldRemoveConn |-> FALSE]]

\* A variant that drops the connection whenever a stream carrying it closes.
unregisterWSAlways(s, k) ==
    LET connID == s.clients[k].connID
    IN  [s EXCEPT
            !.wsConnRefs =
                IF connID # "" /\ DOMAIN @ # {}
                THEN IF Refs(s, connID) <= 1
                     THEN [c \in DOMAIN @ \ {connID} |-> @[c]]
                     ELSE [@ EXCEPT ![connID] = @ - 1]
                ELSE @,
            !.clients[k].shouldRemoveConn = connID # "" /\ DOMAIN s.wsConnRefs # {},
            !.clients[k].state =
                IF connID # "" /\ DOMAIN s.wsConnRefs # {} THEN "unregistering" ELSE "closed",
            !.clients[k].writeLoop =
                IF connID # "" /\ DOMAIN s.wsConnRefs # {} THEN @ ELSE FALSE]

\* unregisterWS while it holds wsMu.  With shouldRemoveConn the client is left
\* "unregistering": removeTerminalConnection follows once wsMu is released.  Without it
\* the handler returns, which cancels the context of writeLoop.
unregisterWS(s, k) ==
    LET connID == s.clients[k].connID
        counted == connID # "" /\ DOMAIN s.wsConnRefs # {}
        shouldRemoveConn == counted /\ Refs(s, connID) <= 1
    IN  [s EXCEPT
            !.wsConnRefs =
                IF counted
                THEN IF Refs(s, connID) <= 1
                     THEN [c \in DOMAIN @ \ {connID} |-> @[c]]
                     ELSE [@ EXCEPT ![connID] = @ - 1]
                ELSE @,
            !.clients[k].shouldRemoveConn = shouldRemoveConn,
            !.clients[k].state = IF shouldRemoveConn THEN "unregistering" ELSE "closed",
            !.clients[k].writeLoop = IF shouldRemoveConn THEN @ ELSE FALSE]

\* The handler returns after removeTerminalConnection.
handlerReturns(s, k) ==
    [s EXCEPT !.clients[k].state = "closed", !.clients[k].writeLoop = FALSE]

\* broadcast while it holds wsMu: the snapshot of the clients; the payload carries the
\* next sequence number of the session.
broadcast(s) ==
    [s EXCEPT !.sequence = @ + 1, !.clientsToSend = wsBySession(s)]

\* A variant that skips a slow consumer and leaves its websocket open.
broadcastSendKeepOpen(s, k) ==
    IF Len(s.clients[k].send) < SendCap
    THEN [s EXCEPT !.clientsToSend = @ \ {k},
                   !.clients[k].send = Append(@, s.sequence)]
    ELSE [s EXCEPT !.clientsToSend = @ \ {k},
                   !.clients[k].missed = @ \cup {s.sequence}]

\* One round of the loop of broadcast: the select with its default case.
broadcastSend(s, k) ==
    IF Len(s.clients[k].send) < SendCap
    THEN [s EXCEPT !.clientsToSend = @ \ {k},
                   !.clients[k].send = Append(@, s.sequence)]
    ELSE [s EXCEPT !.clientsToSend = @ \ {k},
                   !.clients[k].missed = @ \cup {s.sequence},
                   !.clients[k].conn = IF @ = "open" THEN "policy violation" ELSE @]

\* One round of writeLoop: take a message from send, write it to the websocket; the
\* write fails once the websocket is closed and the loop returns.
writeLoop(s, k) ==
    IF s.clients[k].conn = "open"
    THEN [s EXCEPT !.clients[k].send = Tail(@),
                   !.clients[k].written = Append(@, Head(s.clients[k].send))]
    ELSE [s EXCEPT !.clients[k].send = Tail(@),
                   !.clients[k].writeLoop = FALSE]

(***************************************************************************)
(* The registry of the Manager with several sessions.  reg holds sessions  *)
(* (the keys of the map), sessionOrder, and as history the ids in the      *)
(* order of their registration, the number of CreateSession calls and the  *)
(* ids whose CreateSession has registered them and not yet started the PTY.*)
(***************************************************************************)
\* generateSessionID: the hex of 16 random bytes, taken to differ from every id made
\* before (n counts the calls), or "session-unknown" when rand.Read fails.
generateSessionID(n, randOk) == IF randOk THEN <<"session", n>> ELSE <<"session", 0>>

\* ListSessions: the registered sessions in the order of sessionOrder.
ListSessionsOf(m) == SelectSeq(m.sessionOrder, LAMBDA id : id \in m.sessions)

\* CreateSession, lines 94-97: the session enters the map and the order list.
RegisterSession(m, id) ==
    [m EXCEPT !.sessions = @ \cup {id}, !.sessionOrder = Append(@, id)]

\* Cleanup, lines 243-249: the map and the order list are replaced by empty ones.
CleanupSessions(m) == [m EXCEPT !.sessions = {}, !.sessionOrder = <<>>]

NewRegistry ==
    [sessions |-> {}, sessionOrder |-> <<>>, eventHandler |-> NoHandler,
     registered |-> <<>>, calls |-> 0, starting |-> {}, ops |-> 0]

(***************************************************************************)
(* TerminalSessionsCoordinator.  The snapshot is kept as the set of the    *)
(* ids of its sessions, with the ids whose name updateSessionMeta has      *)
(* patched; the transport has listSessions, createSession and              *)
(* deleteSession.  A refresh is named by its seq; a deleteSession call by  *)
(* its place among the calls.                                              *)
(***************************************************************************)
CoIds == {"a", "b"}

NoDelete ==
    [id |-> "", pc |-> "none", forced |-> 0, overtaken |-> FALSE, filtered |-> FALSE,
     listedAtReject |-> FALSE, backAtReject |-> FALSE,
     disposedAtReject |-> FALSE, pendingAtReject |-> FALSE, again |-> FALSE]

\* The list of a listSessions request the server has not answered.
NotServed == {"not served"}

NewCoordinator ==
    [sessions |-> {}, renamed |-> {}, pendingDeletions |-> {}, disposed |-> FALSE,
     refreshInFlight |-> 0, refreshSeq |-> 0, lastAppliedRefreshSeq |-> 0,
     refreshes |-> [q \in 1..MaxCoSeq |-> "none"],
     dels |-> [k \in 1..MaxCoDeletes |-> NoDelete],
     server |-> CoIds, applied |-> <<>>,
     lists |-> [q \in 1..MaxCoSeq |-> NotServed], made |-> CoIds, returned |-> {}]

\* setSessions(next): nothing after dispose, else the snapshot is replaced.
setSessions(c, next, renamed) ==
    IF c.disposed THEN c ELSE [c EXCEPT !.sessions = next, !.renamed = renamed \cap next]

\* The sessions of a list that a refresh or createSession leaves out, lines 163-165 and
\* 199-201.
\* A variant that leaves out nothing.
FilterPendingNothing(list, pending) == list

FilterPending(list, pending) == list \ pending

\* A variant of the test of line 160 that never finds a result out of date.
IsOlderResultNever(seq, last) == FALSE

\* Line 160: the result of a refresh is dropped when a later one has been applied.
IsOlderResult(seq, last) == seq < last

\* runRefresh(force), lines 146-180, up to the await of listSessions: after dispose
\* and, without force, while a refresh is in flight, nothing is started.
runRefresh(c, force) ==
    IF c.disposed \/ (~force /\ c.refreshInFlight # 0)
    THEN c
    ELSE LET seq == c.refreshSeq + 1 IN
         [c EXCEPT !.refreshSeq = seq,
                   !.refreshes[seq] = "listing",
                   !.refreshInFlight = seq]

\* runRefresh after the await, lines 159-176, for the refresh seq: listSessions has
\* failed (~ok) or has returned list.  The deleteSession calls that wait for the
\* transport note that the list had their id.
refreshReply(c, seq, ok, list) ==
    LET settled == [c EXCEPT !.refreshInFlight = IF @ = seq THEN 0 ELSE @]
    IN  IF ~ok THEN [settled EXCEPT !.refreshes[seq] = "failed"]
        ELSE IF c.disposed THEN [settled EXCEPT !.refreshes[seq] = "disposed"]
        ELSE IF IsOlderResult(seq, c.lastAppliedRefreshSeq)
             THEN [settled EXCEPT !.refreshes[seq] = "dropped"]
        ELSE [setSessions(settled, FilterPending(list, c.pendingDeletions), {}) EXCEPT
                 !.lastAppliedRefreshSeq = seq,
                 !.applied = Append(@, seq),
                 !.refreshes[seq] = "applied",
                 !.dels = [j \in DOMAIN @ |->
                     IF @[j].pc = "transport" /\ @[j].id \in list
                     THEN [@[j] EXCEPT !.filtered = TRUE] ELSE @[j]]]

\* A variant of the failure path of deleteSession that leaves the marker.
deleteFailedKeepsMarker(c, k) ==
    LET r == runRefresh(c, TRUE)
    IN  [r EXCEPT !.dels[k].pc = "refresh",
                  !.dels[k].forced = IF c.disposed THEN 0 ELSE r.refreshSeq]

\* deleteSession, lines 260-265: the marker is taken away and a forced refresh started.
deleteFailed(c, k) ==
    LET d == [c EXCEPT !.pendingDeletions = @ \ {c.dels[k].id}]
        r == runRefresh(d, TRUE)
    IN  [r EXCEPT !.dels[k].pc = "refresh",
                  !.dels[k].forced = IF d.disposed THEN 0 ELSE r.refreshSeq]

\* The other calls for the id of call k that still wait for the transport see the
\* marker go.
Overtake(c, k) ==
    [c EXCEPT !.dels = [j \in DOMAIN @ |->
        IF j # k /\ @[j].pc = "transport" /\ @[j].id = @[k].id
        THEN [@[j] EXCEPT !.overtaken = TRUE] ELSE @[j]]]

(***************************************************************************)
(* useTerminalInstance: the hook holds one SequenceBuffer                  *)
(* (sequenceBufferRef) and one queue of released chunks (dataQueueRef) for *)
(* its whole life and listens to the data events of the session of its     *)
(* sessionId prop.  A chunk is named by its session and its sequence; the  *)
(* clock stands still, so that no chunk is released by a stall.            *)
(***************************************************************************)
HookSessions == {"A", "B"}

DefaultConfig ==
    [maxPendingChunks |-> DefaultMaxPendingChunks,
     maxSequenceGap |-> DefaultMaxSequenceGap,
     cleanupIntervalMs |-> DefaultCleanupIntervalMs,
     forceCleanupThreshold |-> DefaultForceCleanupThreshold,
     maxStallMs |-> DefaultMaxStallMs]

NewHook ==
    [sessionId |-> "A", sequenceBuffer |-> NewSequenceBuffer(0), dataQueue |-> <<>>,
     writes |-> <<>>, emitted |-> [s \in HookSessions |-> {}], switches |-> 0]

\* addChunkToQueue(chunk), lines 433-443.
addChunkToQueue(h, chunk) ==
    LET p == SBPush(h.sequenceBuffer, DefaultConfig, chunk, 0)
    IN  [h EXCEPT !.sequenceBuffer = p.st, !.dataQueue = @ \o p.ready]

\* processDataQueue, lines 403-431, with the terminal ready: a batch of at most ten
\* chunks is written.
processDataQueue(h) ==
    LET n == IF Len(h.dataQueue) < 10 THEN Len(h.dataQueue) ELSE 10
    IN  [h EXCEPT !.writes = @ \o SubSeq(h.dataQueue, 1, n),
                  !.dataQueue = SubSeq(@, n + 1, Len(@))]

(***************************************************************************)
(* The HTTP API of the server for one session: POST /api/sessions,         *)
(* /attach and /resize.  api holds whether the session exists and, of the  *)
(* last request, the action, the sizes sent, the status of the reply and   *)
(* whether the request changed a size of the session.                      *)
(***************************************************************************)
\* limits.go: minCols, minRows, maxCols, maxRows.
limitsMinCols == 20
limitsMinRows == 5
limitsMaxCols == 500
limitsMaxRows == 200

validateDims(cols, rows) ==
    IF cols < limitsMinCols \/ cols > limitsMaxCols THEN FALSE
    ELSE IF rows < limitsMinRows \/ rows > limitsMaxRows THEN FALSE
    ELSE TRUE

NewApi ==
    [exists |-> FALSE, action |-> "none", cols |-> 0, rows |-> 0, status |-> 0,
     changed |-> FALSE, requests |-> 0]

\* The sizes of the session a request can change.
SessionSizes(s) == <<s.connections, s.winsize, s.triggered, s.PTY>>

\* POST /api/sessions, lines 73-98: a size of 0 or less becomes 80 or 24;
\* createOk is the outcome of CreateSession.
handleCreate(s, cols, rows, createOk) ==
    LET c == IF cols <= 0 THEN defaultCols ELSE cols
        r == IF rows <= 0 THEN defaultRows ELSE rows
    IN  IF createOk
        THEN [sess |-> [NewConnections(TRUE, c, r) EXCEPT !.ops = s.ops], status |-> 200]
        ELSE [sess |-> s, status |-> 500]

\* POST /api/sessions/{id}/attach, lines 150-187, for a session that runs.
handleAttach(s, exists, connID, cols, rows) ==
    LET c == IF cols <= 0 THEN defaultCols ELSE cols
        r == IF rows <= 0 THEN defaultRows ELSE rows
    IN  IF connID = "" THEN [sess |-> s, status |-> 400]
        ELSE IF ~exists THEN [sess |-> s, status |-> 404]
        ELSE [sess |-> AddConnection(s, connID, c, r), status |-> 204]

\* POST /api/sessions/{id}/resize, lines 189-221.
handleResize(s, exists, connID, cols, rows, setsizeOk) ==
    IF cols <= 0 \/ rows <= 0 THEN [sess |-> s, status |-> 400]
    ELSE IF ~exists THEN [sess |-> s, status |-> 404]
    ELSE IF connID # ""
         THEN [sess |-> UpdateConnectionSize(s, connID, cols, rows), status |-> 204]
    ELSE IF ~s.PTY \/ ~setsizeOk
         THEN [sess |-> ResizePTY(s, cols, rows, setsizeOk), status |-> 500]
    ELSE [sess |-> ResizePTY(s, cols, rows, setsizeOk), status |-> 204]

(***************************************************************************)
(* The resize-suppression window of a Session.  rs holds isResizing,       *)
(* resizeEndTime, the clock, whether the PTY is there, the outputs written *)
(* to the ring buffer and those broadcast, and as history the window that  *)
(* the last start or resize has left and, for every output, whether that   *)
(* window was open when the output was read.                               *)
(***************************************************************************)
NewSuppress ==
    [PTY |-> FALSE, isResizing |-> FALSE, resizeEndTime |-> 0, now |-> 0,
     ringBuffer |-> <<>>, broadcast |-> <<>>,
     window |-> [open |-> FALSE, end |-> 0], outputs |-> <<>>, resizes |-> 0]

\* A variant of shouldSkipRingBufferWrite that does not look at the clock.
shouldSkipRingBufferWriteNoClock(s) == [sess |-> s, skip |-> s.isResizing]

\* shouldSkipRingBufferWrite: time.Now().After(resizeEndTime) ends the suppression.
shouldSkipRingBufferWrite(s) ==
    IF s.isResizing
    THEN IF s.now > s.resizeEndTime
         THEN [sess |-> [s EXCEPT !.isResizing = FALSE], skip |-> FALSE]
         ELSE [sess |-> s, skip |-> TRUE]
    ELSE [sess |-> s, skip |-> FALSE]

\* processRawPTYData(data): the write to the ring buffer unless suppressed, then
\* broadcastData.
processRawPTYData(s, data) ==
    LET r == shouldSkipRingBufferWrite(s)
    IN  [r.sess EXCEPT !.ringBuffer = IF r.skip THEN @ ELSE Append(@, data),
                       !.broadcast = Append(@, data)]

\* startPTY, lines 223-224 and 235: the window of the activation.
startSuppress(s) ==
    [s EXCEPT !.PTY = TRUE, !.isResizing = TRUE,
              !.resizeEndTime = s.now + InitialResizeSuppress]

\* ResizePTY and resizePTYToMinimumSize: the window of a resize; a failed Setsize
\* clears isResizing.
resizeSuppress(s, setsizeOk) ==
    IF ~s.PTY THEN s
    ELSE [s EXCEPT !.isResizing = setsizeOk,
                   !.resizeEndTime = s.now + ResizeSuppress]

(***************************************************************************)
(* Working-directory tracking of a Session.  A path is the sequence of its *)
(* components (<<>> is "/"), NoDir the empty string.  An output is known   *)
(* by the directory each kind of hint in it carries, NoDir when it has no  *)
(* hint of that kind or the hint does not parse.                           *)
(***************************************************************************)
NoDir == <<"">>
HomeDir == <<"home", "u">>

NoHints == [vscode |-> NoDir, iterm2 |-> NoDir, osc7 |-> NoDir, title |-> NoDir]

\* parseWorkingDirectory: VSCode, then iTerm2, then OSC 7, then the title.
parseWorkingDirectory(output) ==
    IF output.vscode # NoDir THEN output.vscode
    ELSE IF output.iterm2 # NoDir THEN output.iterm2
    ELSE IF output.osc7 # NoDir THEN output.osc7
    ELSE output.title

\* getDirectoryName: "home" for the empty path and the home directory, "root" for "/",
\* else the last component.
getDirectoryName(path) ==
    IF path = NoDir \/ path = HomeDir THEN "home"
    ELSE IF path = <<>> THEN "root"
    ELSE path[Len(path)]

\* onSessionNameChange(newName, workingDir): the name is set and the handler, if there
\* is one, gets OnTerminalNameChanged.
onSessionNameChange(s, newName, workingDir) ==
    [s EXCEPT !.Name = newName,
              !.events = IF s.eventHandler
                         THEN Append(@, [oldName |-> s.Name, newName |-> newName,
                                         workingDir |-> workingDir])
                         ELSE @]

\* A variant of checkWorkingDirectoryChange that keeps the old directory.
checkWorkingDirectoryChangeKeepsDir(s, output) ==
    LET currentDir == parseWorkingDirectory(output) IN
    IF currentDir = NoDir \/ currentDir = s.currentWorkingDir THEN s
    ELSE IF getDirectoryName(currentDir) # s.Name
         THEN onSessionNameChange(s, getDirectoryName(currentDir), currentDir)
         ELSE s

checkWorkingDirectoryChange(s, output) ==
    LET currentDir == parseWorkingDirectory(output) IN
    IF currentDir = NoDir \/ currentDir = s.currentWorkingDir THEN s
    ELSE LET t == [s EXCEPT !.currentWorkingDir = currentDir]
             newName == getDirectoryName(currentDir)
         IN  IF newName # s.Name THEN onSessionNameChange(t, newName, currentDir) ELSE t

NewWorkdir ==
    [currentWorkingDir |-> NoDir, Name |-> "", eventHandler |-> FALSE, events |-> <<>>,
     outputs |-> 0, parsed |-> NoDir, dirBefore |-> NoDir, nameBefore |-> "",
     eventsBefore |-> 0]

(***************************************************************************)
(* The reader task of a Session from processRawPTYData on, with the event  *)
(* handler slot of the session written by SetEventHandler meanwhile.  An   *)
(* invocation of the handler is recorded with what its caller held and how *)
(* the handler it calls was read.                                          *)
(***************************************************************************)
NameTask == <<"reader", 1>>

NewNameChange ==
    [mu |-> FreeMutex, eventHandler |-> NoHandler, Name |-> "", pc |-> "idle",
     handler |-> NoHandler, hint |-> "", oldName |-> "", arg |-> "none",
     calls |-> <<>>, outputs |-> 0, sets |-> 0]

\* A task holds the session lock, for reading or for writing.
HoldsLock(mu, t) == mu.w = t \/ t \in mu.r

\* What a read of s.eventHandler made without the lock may return: the slot, or the
\* value a SetEventHandler that holds the lock is writing.
UnlockedRead(n) == {n.eventHandler} \cup (IF n.arg = "none" THEN {} ELSE {n.arg})

\* The record of one handler invocation.
Invocation(n, method, h, snapshot) ==
    [method |-> method, handler |-> h, held |-> HoldsLock(n.mu, NameTask),
     snapshot |-> snapshot]

(***************************************************************************)
(* The two sequence counters of a Session: nextSequence of its ring buffer *)
(* stamps the history chunks, sequenceNumber stamps the data events.       *)
(***************************************************************************)
NewSeqSession ==
    [ringBuffer |-> NewTerminalRingBuffer(1), sequenceNumber |-> 0,
     isResizing |-> FALSE, resizeEndTime |-> 0, now |-> 0,
     events |-> <<>>, reads |-> 0, clears |-> 0]

\* processRawPTYData and broadcastData for one read: the bytes are written to the ring
\* buffer unless suppressed, and broadcast with
\* seqNum := atomic.AddInt64(&s.sequenceNumber, 1).
readAndBroadcast(s, data) ==
    LET r == shouldSkipRingBufferWrite(s)
        seqNum == s.sequenceNumber + 1
    IN  [r.sess EXCEPT
            !.ringBuffer = IF r.skip THEN @ ELSE WriteOwned(@, data),
            !.sequenceNumber = seqNum,
            !.events = Append(@, [data |-> data, sequence |-> seqNum, skipped |-> r.skip])]

\* ClearHistory: ringBuffer.Clear() under the session lock.
ClearHistory(s) == [s EXCEPT !.ringBuffer = Clear(@)]

(***************************************************************************)
(* The idle value of each group of variables: a specification holds the    *)
(* groups it does not use at these values.                                 *)
(***************************************************************************)
RingIdle ==
    /\ ring = NewTerminalRingBuffer(1)
    /\ written = <<>>
    /\ lastRead = <<>>

SBIdle ==
    /\ sb = NewSequenceBuffer(0)
    /\ sbCfg = [maxPendingChunks |-> DefaultMaxPendingChunks,
                maxSequenceGap |-> DefaultMaxSequenceGap,
                cleanupIntervalMs |-> DefaultCleanupIntervalMs,
                forceCleanupThreshold |-> DefaultForceCleanupThreshold,
                maxStallMs |-> DefaultMaxStallMs]
    /\ sbNow = 0
    /\ sbReady = <<>>
    /\ sbReleased = <<>>
    /\ sbPushed = [start |-> 1, count |-> 0, seqs |-> {}, dup |-> FALSE, last |-> -1,
                   kind |-> "none", flushed |-> <<>>, discarded |-> 0]
    /\ sbElapsed = FALSE
    /\ sbResets = 0

MgrIdle ==
    /\ mgr = NewManager
    /\ mMu = FreeMutex
    /\ sess = NoSession
    /\ sMu = FreeMutex
    /\ createdDone = "none"
    /\ proc = [g \in Starts |-> NoProc]
    /\ task = [t \in Tasks |-> NewTask("unborn")]
    /\ created = "none"
    /\ closed = <<>>
    /\ delivered = <<>>
    /\ hdone = <<"none", "none">>
    /\ outputs = 0
    /\ clientOps = 0
    /\ exitedEarly = FALSE

HFIdle == hf = [xs |-> <<>>, once |-> <<>>, twice |-> <<>>, calls |-> 0]

HistIdle == hist = [requests |-> 0, startSeq |-> 0, endSeq |-> -1, out |-> <<>>]

InputIdle == inp = NewInput(FALSE)

ConnIdle == cn = NewConnections(FALSE, 0, 0)

SrvIdle == srv = NewServer

RegIdle == reg = NewRegistry

CoIdle == co = NewCoordinator

HookIdle == hk = NewHook

ApiIdle == api = NewApi

SuppressIdle == rs = NewSuppress

WorkdirIdle == wd = NewWorkdir

NameIdle == nm = NewNameChange

SeqIdle == sq = NewSeqSession

LateIdle ==
    /\ RegIdle /\ CoIdle /\ HookIdle /\ ApiIdle
    /\ SuppressIdle /\ WorkdirIdle /\ NameIdle /\ SeqIdle

ExtIdle == HFIdle /\ HistIdle /\ InputIdle /\ ConnIdle /\ SrvIdle /\ LateIdle

(***************************************************************************)
(* Specification of the ring buffer alone.                                 *)
(***************************************************************************)
InitRing ==
    /\ SBIdle
    /\ MgrIdle
    /\ ExtIdle
    /\ \E n \in 1..MaxCap : ring = NewTerminalRingBuffer(n)
    /\ written = <<>>
    /\ lastRead = <<>>

\* Write(data) -> writeOwned(copy of data); a zero-length write is rejected.
RingWrite ==
    /\ ring.writeCount < MaxWrites
    /\ \E len \in 0..MaxLen :
         LET data == Payload(ring.writeCount + 1, len) IN
         /\ ring' = WriteOwned(ring, data)
         /\ written' = IF len = 0 THEN written ELSE Append(written, data)
    /\ UNCHANGED <<lastRead, ringOther>>

\* Session.ClearHistory: ringBuffer.Clear() under the session lock.
RingClear ==
    /\ ring' = Clear(ring)
    /\ written' = <<>>
    /\ UNCHANGED <<lastRead, ringOther>>

RingReadAll ==
    /\ ring.readCount < MaxReads
    /\ ring' = [ring EXCEPT !.readCount = ring.readCount + 1]
    /\ lastRead' = ReadAll(ring)
    /\ UNCHANGED <<written, ringOther>>

NextRing == RingWrite \/ RingClear \/ RingReadAll

SpecRing == InitRing /\ [][NextRing]_vars

(***************************************************************************)
(* Claims about the ring buffer.                                           *)
(***************************************************************************)
RetainedSizes(rb) ==
    LET cs == ReadAllChunks(rb) IN [i \in 1..Len(cs) |-> cs[i].Size]

\* C8: after any writes (overwrites included) and clears, total_bytes equals
\* the sum of the sizes of the chunks currently retained.
C8_TotalBytesIsRetainedSum ==
    StatsTotalBytes(ring) = SumSeq(RetainedSizes(ring))

\* C8 witness: a full buffer whose oldest chunk has been overwritten.
C8_Witness ==
    /\ ring.full
    /\ ring.writeCount > ring.size
    /\ ring.totalBytes > ring.size

LastN(s, n) == SubSeq(s, Len(s) - n + 1, Len(s))

\* C9: with more non-empty writes than the capacity N, reading all chunks
\* returns exactly the last N written payloads in write order.
C9_OverflowKeepsLastN ==
    Len(written) > ring.size => ReadAll(ring) = LastN(written, ring.size)

\* C9 witness: a read performed after overflow returned the last N payloads.
C9_Witness ==
    /\ Len(written) > ring.size
    /\ ring.size >= 2
    /\ ring.readCount > 0
    /\ lastRead = LastN(written, ring.size)

\* The sequences of the retained chunks count the writes accepted since
\* construction or the last clear: the newest is Len(written), the first
\* chunk written after a clear is 1.
NumberedFromOne(rb, w) ==
    LET cs == ReadAllChunks(rb) IN
    \A i \in 1..Len(cs) : cs[i].Sequence = Len(w) - Len(cs) + i

\* C10: after clear_history (the ring-buffer clear) no chunk remains in
\* history, total_bytes is 0, and numbering is reset: the next chunk recorded
\* in history is numbered 1 and the following ones count up from it.
C10_ClearResetsHistory ==
    /\ [](NumberedFromOne(ring, written))
    /\ [][RingClear => /\ ReadAllChunks(ring') = <<>>
                       /\ GetUsedChunks(ring') = 0
                       /\ StatsTotalBytes(ring') = 0
                       /\ ring'.nextSequence = 1]_vars

\* C10 witness: chunks were written, history was cleared, and the one chunk
\* written since is numbered 1.
C10_Witness ==
    /\ ring.writeCount >= 3
    /\ Len(written) = 1
    /\ Len(ReadAllChunks(ring)) = 1
    /\ ReadAllChunks(ring)[1].Sequence = 1
    /\ StatsTotalBytes(ring) = Len(written[1])

(***************************************************************************)
(* Specification of the SequenceBuffer: pushes of chunks with sequences    *)
(* 0..MaxSeq in any order, with repeats, while the clock advances, and     *)
(* resets.                                                                 *)
(***************************************************************************)
\* The configurations: maxSequenceGap and maxPendingChunks vary independently;
\* forceCleanupThreshold lies above maxPendingChunks and cleanupIntervalMs above
\* maxStallMs, as in defaultConfig (60 > 40, 5000 > 500).
SBConfigs ==
    [maxPendingChunks : 1..MaxPend,
     maxSequenceGap : 1..MaxGap,
     cleanupIntervalMs : {StallMs + CleanupExtraMs},
     forceCleanupThreshold : {MaxPend + 1},
     maxStallMs : {StallMs}]

\* History of the pushes since the last reset: start is the expected sequence
\* the reset left, kind tells which branch the last push took, flushed the
\* sequences its stall flush released, discarded the pending chunks it dropped.
NoPushes(start) ==
    [start |-> start, count |-> 0, seqs |-> {}, dup |-> FALSE, last |-> -1,
     kind |-> "none", flushed |-> <<>>, discarded |-> 0]

SeqsOf(chunks) == [i \in 1..Len(chunks) |-> chunks[i].sequence]

\* The branch of push a chunk takes, from the buffer as flushIfStalled left it.
PushKind(f, cfg, chunk) ==
    IF chunk.sequence < 1 THEN "pass"
    ELSE IF chunk.sequence = f.st.expected THEN "expected"
    ELSE IF Bufferable(f.st, cfg, chunk.sequence) THEN "buffered"
    ELSE IF chunk.sequence > f.st.expected THEN "jump"
    ELSE "stale"

InitSB ==
    /\ RingIdle
    /\ MgrIdle
    /\ ExtIdle
    /\ sbCfg \in SBConfigs
    /\ sbNow = 0
    /\ sb = NewSequenceBuffer(0)
    /\ sbReady = <<>>
    /\ sbReleased = <<>>
    /\ sbPushed = NoPushes(1)
    /\ sbElapsed = FALSE
    /\ sbResets = 0

\* The releases of one push, each marked stale when it is the pushed chunk
\* itself and lies below the expected sequence at the time it is examined.
Marked(ready, f, chunk) ==
    [i \in 1..Len(ready) |->
        [sequence |-> ready[i].sequence,
         stale |-> /\ i = Len(ready)
                   /\ ready[i] = chunk
                   /\ chunk.sequence >= 1
                   /\ chunk.sequence < f.st.expected]]

\* addChunkToQueue: sequenceBufferRef.current.push(chunk)
SBPushChunk ==
    /\ sbPushed.count < MaxPushes
    /\ \E s \in 0..MaxSeq :
         LET chunk == [sequence |-> s]
             r == SBPush(sb, sbCfg, chunk, sbNow)
             f == AfterFlush(sb, sbCfg, sbNow)
         IN /\ sb' = r.st
            /\ sbReady' = r.ready
            /\ sbReleased' = sbReleased \o Marked(r.ready, f, chunk)
            /\ sbPushed' = [start |-> sbPushed.start,
                            count |-> sbPushed.count + 1,
                            seqs |-> sbPushed.seqs \cup {s},
                            dup |-> sbPushed.dup \/ s \in sbPushed.seqs,
                            last |-> s,
                            kind |-> PushKind(f, sbCfg, chunk),
                            flushed |-> IF s < 1 THEN <<>> ELSE SeqsOf(f.ready),
                            discarded |-> IF PushKind(f, sbCfg, chunk) = "jump"
                                          THEN Cardinality(DOMAIN f.st.pending) ELSE 0]
    /\ UNCHANGED <<sbCfg, sbNow, sbElapsed, sbResets, sbOther>>

\* Time passes on the client.
SBTick ==
    /\ sbNow < MaxTime
    /\ sbNow' = sbNow + 1
    /\ sbElapsed' = TRUE
    /\ UNCHANGED <<sb, sbCfg, sbReady, sbReleased, sbPushed, sbResets, sbOther>>

\* reset(startSequence)
SBResetTo ==
    /\ sbResets < MaxResets
    /\ sbPushed.count > 0
    /\ \E start \in 0..2 :
         /\ sb' = SBReset(sb, start, sbNow)
         /\ sbPushed' = NoPushes(SBReset(sb, start, sbNow).expected)
    /\ sbReady' = <<>>
    /\ sbReleased' = <<>>
    /\ sbElapsed' = FALSE
    /\ sbResets' = sbResets + 1
    /\ UNCHANGED <<sbCfg, sbNow, sbOther>>

NextSB == SBPushChunk \/ SBTick \/ SBResetTo

SpecSB == InitSB /\ [][NextSB]_vars

(***************************************************************************)
(* Claims about the SequenceBuffer.                                        *)
(***************************************************************************)
\* The pushes since a reset(1) are a permutation of 1..n and no time has passed.
PermutationPushed(n) ==
    /\ ~sbElapsed
    /\ sbPushed.start = 1
    /\ ~sbPushed.dup
    /\ sbPushed.count = n
    /\ sbPushed.seqs = 1..n

\* C4 as claimed: for every n and every permutation of 1..n pushed after
\* reset(1) with no time passing, the releases are exactly 1..n in order.
C4_Original ==
    \A n \in 1..MaxPushes :
        PermutationPushed(n) => SeqsOf(sbReleased) = [i \in 1..n |-> i]

\* C4 amended: the same, for n - 1 <= maxSequenceGap, n - 1 <= maxPendingChunks
\* and n - 1 < forceCleanupThreshold (with maxStallMs > 0): every chunk of the
\* permutation is then either the expected one or bufferable.
C4_PermutationWithinLimits ==
    \A n \in 1..MaxPushes :
        /\ PermutationPushed(n)
        /\ n - 1 <= sbCfg.maxSequenceGap
        /\ n - 1 <= sbCfg.maxPendingChunks
        /\ n - 1 < sbCfg.forceCleanupThreshold
        /\ sbCfg.maxStallMs > 0
        => SeqsOf(sbReleased) = [i \in 1..n |-> i]

\* C4 witness: 3, 2, 1 pushed with no time passing; the last push released 1, 2, 3.
C4_Witness ==
    /\ PermutationPushed(3)
    /\ sbPushed.last = 1
    /\ SeqsOf(sbReady) = <<1, 2, 3>>
    /\ SeqsOf(sbReleased) = <<1, 2, 3>>

\* Chunks 2 and 3 are pending, chunk 1 never arrived, and both have been
\* pending for at least maxStallMs.
Stalled23 ==
    /\ sb.expected = 1
    /\ DOMAIN sb.pending = {2, 3}
    /\ sbNow - sb.insertedAt[2] >= sbCfg.maxStallMs
    /\ sbNow - sb.insertedAt[3] >= sbCfg.maxStallMs

PushStep == sbPushed'.count = sbPushed.count + 1

Releases23First ==
    /\ Len(sbReady') >= 2
    /\ sbReady'[1].sequence = 2
    /\ sbReady'[2].sequence = 3

\* C5 as claimed: from that state the next push of any chunk, whatever its
\* sequence, releases 2 and 3 in that order before or with the pushed chunk.
C5_Original == [][(Stalled23 /\ PushStep) => Releases23First]_vars

\* C5 amended: the next push of any sequenced chunk (sequence >= 1) does so,
\* provided pending is below forceCleanupThreshold (it always is with the
\* default configuration); a non-sequenced chunk passes through without
\* touching the buffer.
C5_StallBreakOnSequencedPush ==
    [][(/\ Stalled23
        /\ PushStep
        /\ sbPushed'.last >= 1
        /\ Cardinality(DOMAIN sb.pending) < sbCfg.forceCleanupThreshold)
       => Releases23First]_vars

\* C5 witness: a push of chunk 4 broke the stall and released 2, 3, 4.
C5_Witness ==
    /\ sbPushed.flushed = <<2, 3>>
    /\ sbPushed.last = 4
    /\ SeqsOf(sbReady) = <<2, 3, 4>>
    /\ 1 \notin sbPushed.seqs

\* C6 as claimed: between two resets the sequenced chunks released have
\* strictly increasing sequence numbers.
C6_Original ==
    \A i, j \in 1..Len(sbReleased) :
        (i < j /\ sbReleased[i].sequence >= 1 /\ sbReleased[j].sequence >= 1)
        => sbReleased[i].sequence < sbReleased[j].sequence

\* C6 amended: every sequenced chunk released, other than a pushed chunk that
\* lies below the expected sequence (a late or duplicate arrival, which push
\* hands back at once), has a sequence greater than every sequenced chunk
\* released before it.
C6_IncreasingExceptStale ==
    \A i, j \in 1..Len(sbReleased) :
        (/\ i < j
         /\ sbReleased[i].sequence >= 1
         /\ sbReleased[j].sequence >= 1
         /\ ~sbReleased[j].stale)
        => sbReleased[i].sequence < sbReleased[j].sequence

\* C6 witness: a stall was broken, a late chunk was handed back, and a later
\* chunk was still released in order.
C6_Witness ==
    /\ Len(sbReleased) >= 3
    /\ sbReleased[2].stale
    /\ ~sbReleased[3].stale
    /\ sbReleased[3].sequence > sbReleased[1].sequence

PushedChunk == [sequence |-> sbPushed'.last]

Jumped ==
    /\ sb'.expected = sbPushed'.last + 1
    /\ DOMAIN sb'.pending = {}
    /\ Len(sbReady') >= 1
    /\ sbReady'[Len(sbReady')] = PushedChunk

\* C7 as claimed: a pushed sequenced chunk that is neither the expected one
\* nor bufferable (beyond expected + maxSequenceGap, or pending already holds
\* maxPendingChunks entries) makes expected = sequence + 1, empties pending
\* and is released at once.
C7_Original ==
    [][(/\ PushStep
        /\ sbPushed'.last >= 1
        /\ sbPushed'.last # sb.expected
        /\ \/ sbPushed'.last > sb.expected + sbCfg.maxSequenceGap
           \/ Cardinality(DOMAIN sb.pending) >= sbCfg.maxPendingChunks)
       => Jumped]_vars

\* C7 amended: with expected and pending taken after the cleanup and stall
\* flush that open the push, a sequenced chunk ahead of expected that is not
\* bufferable makes expected = sequence + 1, empties pending and is released
\* at once, and the chunk sequence + 1 pushed next is released on arrival; a
\* chunk below expected is released without changing expected or pending.
C7_JumpOnUnbufferableAhead ==
    [][/\ (/\ PushStep
           /\ sbPushed'.last >= 1
           /\ sbPushed'.last > AfterFlush(sb, sbCfg, sbNow).st.expected
           /\ ~Bufferable(AfterFlush(sb, sbCfg, sbNow).st, sbCfg, sbPushed'.last))
          => Jumped
       /\ (/\ PushStep
           /\ sbPushed.kind = "jump"
           /\ sbPushed'.last = sbPushed.last + 1)
          => sbReady' = <<PushedChunk>>
       /\ (/\ PushStep
           /\ sbPushed'.last >= 1
           /\ sbPushed'.last < AfterFlush(sb, sbCfg, sbNow).st.expected)
          => /\ sb' = AfterFlush(sb, sbCfg, sbNow).st
             /\ sbReady'[Len(sbReady')] = PushedChunk
      ]_vars

\* C7 witness: a chunk within the gap found pending full, was released at
\* once and the pending chunks were discarded.
C7_Witness ==
    /\ sbPushed.kind = "jump"
    /\ sbPushed.discarded > 0
    /\ sbPushed.last <= sbPushed.start + sbCfg.maxSequenceGap
    /\ sb.expected = sbPushed.last + 1
    /\ DOMAIN sb.pending = {}
    /\ sbReady = <<[sequence |-> sbPushed.last]>>

(***************************************************************************)
(* Specification of the Manager with one session: CreateSession runs on    *)
(* the creator task while a client task calls DeleteSession,               *)
(* ActivateSession and SetEventHandler, the child exits at any moment, and *)
(* the event handler calls back into the manager and the session from      *)
(* OnTerminalSessionCreated and OnTerminalData.  The bytes read from the   *)
(* PTY carry no working-directory hint; the history and the connections of *)
(* the session are not part of this specification.                         *)
(***************************************************************************)
HandlerOps == {"none", "ListSessions", "WriteDataWithSource", "DeleteSession"}

InitMgrWith(maxOutputs, maxClientOps) ==
    /\ RingIdle
    /\ SBIdle
    /\ ExtIdle
    /\ mgr = [NewManager EXCEPT !.eventHandler = TheHandler]
    /\ mMu = FreeMutex
    /\ sess = NoSession
    /\ sMu = FreeMutex
    /\ createdDone = "none"
    /\ proc = [g \in Starts |-> NoProc]
    /\ task = [t \in Tasks |->
                 IF t = Creator THEN NewTask("cs_snapshot")
                 ELSE IF t = Client THEN NewTask("idle")
                 ELSE NewTask("unborn")]
    /\ created = "none"
    /\ closed = <<>>
    /\ delivered = <<>>
    /\ hdone = <<"none", "none">>
    /\ outputs = maxOutputs
    /\ clientOps = maxClientOps
    /\ exitedEarly = FALSE

InitMgr == InitMgrWith(MaxOutputs, MaxClientOps)

At(t, pc) == task[t].pc = pc

\* A call: the task moves to entry and will return to ret.
Call(tk, t, entry, ret) ==
    [tk EXCEPT ![t].pc = entry, ![t].stack = <<ret>> \o @]

\* A return: the task moves to the position on top of its stack.
Return(tk, t) ==
    [tk EXCEPT ![t].pc = Head(tk[t].stack), ![t].stack = Tail(@)]

\* A variant of startPTY without the check of the context.
StartPTYIgnoresCancel(s, p, ok) ==
    IF s.isActive THEN [sess |-> s, proc |-> p, err |-> FALSE, msg |-> "nil", started |-> 0]
    ELSE IF ~ok
    THEN [sess |-> s, proc |-> p, err |-> TRUE, msg |-> "failed to start PTY", started |-> 0]
    ELSE LET g == FreeStart(p) IN
         [sess |-> [s EXCEPT !.PTY = g, !.Cmd = g, !.isActive = TRUE, !.procWaitDone = g],
          proc |-> [p EXCEPT ![g] = [pty |-> "open", child |-> "running", waitDone |-> "open"]],
          err |-> FALSE, msg |-> "nil", started |-> g]

\* startPTY under the session lock: a no-op when active, the error "session is
\* closed" when the context is cancelled, the error of pty.Start when it fails
\* (ok = FALSE), else the PTY, the child and procWaitDone of start g are made and
\* the session is active.
StartPTY(s, p, ok) ==
    IF s.isActive THEN [sess |-> s, proc |-> p, err |-> FALSE, msg |-> "nil", started |-> 0]
    ELSE IF s.cancelled
    THEN [sess |-> s, proc |-> p, err |-> TRUE, msg |-> "session is closed", started |-> 0]
    ELSE IF ~ok
    THEN [sess |-> s, proc |-> p, err |-> TRUE, msg |-> "failed to start PTY", started |-> 0]
    ELSE LET g == FreeStart(p) IN
         [sess |-> [s EXCEPT !.PTY = g, !.Cmd = g, !.isActive = TRUE, !.procWaitDone = g],
          proc |-> [p EXCEPT ![g] = [pty |-> "open", child |-> "running", waitDone |-> "open"]],
          err |-> FALSE, msg |-> "nil", started |-> g]

\* go s.readPTYOutput(); go s.waitProcessExit()
Spawn(tk, g) ==
    IF g = 0 THEN tk
    ELSE [tk EXCEPT ![Reader(g)] = NewTask("r_loop"), ![Waiter(g)] = NewTask("w_snapshot")]

mgrOther == <<ringVars, sbVars, extVars, lateVars>>

(* ------------------------- CreateSession ------------------------------ *)
\* Lines 61-90: the handler is snapshotted under the read lock, the latch and
\* the Session are made.
CS_Snapshot ==
    /\ At(Creator, "cs_snapshot")
    /\ CanRLock(mMu)
    /\ mMu' = WithRLock(mMu, Creator)
    /\ sess' = NewSession(mgr.eventHandler)
    /\ createdDone' = "open"
    /\ task' = [task EXCEPT ![Creator].pc = "cs_register"]
    /\ UNCHANGED <<mgr, sMu, proc, created, closed, delivered, hdone, outputs, clientOps,
                   exitedEarly, mgrOther>>

\* Lines 94-97: the session is registered before the PTY starts.
CS_Register ==
    /\ At(Creator, "cs_register")
    /\ CanLock(mMu)
    /\ mMu' = WithLock(mMu, Creator)
    /\ mgr' = [mgr EXCEPT !.sessions = @ \cup {SessionId},
                          !.sessionOrder = Append(@, SessionId)]
    /\ task' = [task EXCEPT ![Creator].pc = "cs_start"]
    /\ UNCHANGED <<sess, sMu, createdDone, proc, created, closed, delivered, hdone, outputs,
                   clientOps, exitedEarly, mgrOther>>

\* Line 99: session.startPTY(cols, rows).
CS_StartPTY ==
    /\ At(Creator, "cs_start")
    /\ CanLock(sMu)
    /\ sMu' = WithLock(sMu, Creator)
    /\ \E ok \in BOOLEAN :
         LET r == StartPTY(sess, proc, ok) IN
         /\ sess' = r.sess
         /\ proc' = r.proc
         /\ task' = Spawn([task EXCEPT ![Creator].pc = IF r.err THEN "cs_cancel"
                                                        ELSE "cs_refresh"], r.started)
    /\ UNCHANGED <<mgr, mMu, createdDone, created, closed, delivered, hdone, outputs,
                   clientOps, exitedEarly, mgrOther>>

\* Line 100: cancel() on the failure path.
CS_Cancel ==
    /\ At(Creator, "cs_cancel")
    /\ sess' = [sess EXCEPT !.cancelled = TRUE]
    /\ task' = [task EXCEPT ![Creator].pc = "cs_detach"]
    /\ UNCHANGED <<mgr, mMu, sMu, createdDone, proc, created, closed, delivered, hdone,
                   outputs, clientOps, exitedEarly, mgrOther>>

\* A variant of the failure path that goes on to session.cleanup() without
\* m.detachSession(sessionID).
CS_DetachSkipped ==
    /\ At(Creator, "cs_detach")
    /\ task' = Call(task, Creator, "cl_lock", "cs_fail")
    /\ UNCHANGED <<mgr, mMu, sess, sMu, createdDone, proc, created, closed, delivered, hdone,
                   outputs, clientOps, exitedEarly, mgrOther>>

\* Lines 101-102: m.detachSession(sessionID), then session.cleanup().
CS_Detach ==
    /\ At(Creator, "cs_detach")
    /\ CanLock(mMu)
    /\ mMu' = WithLock(mMu, Creator)
    /\ mgr' = DetachSession(mgr, SessionId).mgr
    /\ task' = Call(task, Creator, "cl_lock", "cs_fail")
    /\ UNCHANGED <<sess, sMu, createdDone, proc, created, closed, delivered, hdone, outputs,
                   clientOps, exitedEarly, mgrOther>>

\* Lines 108-110: the handler is read again after the PTY start.
CS_Refresh ==
    /\ At(Creator, "cs_refresh")
    /\ CanRLock(mMu)
    /\ mMu' = WithRLock(mMu, Creator)
    /\ task' = [task EXCEPT ![Creator].pc = "cs_install", ![Creator].handler = mgr.eventHandler]
    /\ UNCHANGED <<mgr, sess, sMu, createdDone, proc, created, closed, delivered, hdone,
                   outputs, clientOps, exitedEarly, mgrOther>>

\* Lines 112-114: session.eventHandler = handler under the session lock.
CS_Install ==
    /\ At(Creator, "cs_install")
    /\ CanLock(sMu)
    /\ sMu' = WithLock(sMu, Creator)
    /\ sess' = [sess EXCEPT !.eventHandler = task[Creator].handler]
    /\ task' = [task EXCEPT ![Creator].pc = "cs_created"]
    /\ UNCHANGED <<mgr, mMu, createdDone, proc, created, closed, delivered, hdone, outputs,
                   clientOps, exitedEarly, mgrOther>>

\* Lines 118-120: handler.OnTerminalSessionCreated(session), no lock held.
CS_Created ==
    /\ At(Creator, "cs_created")
    /\ IF task[Creator].handler # NoHandler
       THEN /\ created' = "called"
            /\ task' = Call([task EXCEPT ![Creator].handler = NoHandler],
                            Creator, "h_body", "cs_return")
       ELSE /\ created' = created
            /\ task' = [task EXCEPT ![Creator].pc = "cs_return"]
    /\ UNCHANGED <<mgr, mMu, sess, sMu, createdDone, proc, closed, delivered, hdone, outputs,
                   clientOps, exitedEarly, mgrOther>>

\* CreateSession returns the error of startPTY (line 104): the deferred
\* close(createdDone) runs.
CS_Fail ==
    /\ At(Creator, "cs_fail")
    /\ createdDone' = "closed"
    /\ task' = [task EXCEPT ![Creator].pc = "failed"]
    /\ UNCHANGED <<mgr, mMu, sess, sMu, proc, created, closed, delivered, hdone, outputs,
                   clientOps, exitedEarly, mgrOther>>

\* A variant of the return of CreateSession that leaves the created latch open.
CS_ReturnKeepsLatch ==
    /\ At(Creator, "cs_return")
    /\ task' = [task EXCEPT ![Creator].pc = "done"]
    /\ UNCHANGED <<mgr, mMu, sess, sMu, createdDone, proc, created, closed, delivered, hdone,
                   outputs, clientOps, exitedEarly, mgrOther>>

\* CreateSession returns the session (line 122): the deferred close(createdDone) runs.
CS_Return ==
    /\ At(Creator, "cs_return")
    /\ createdDone' = "closed"
    /\ task' = [task EXCEPT ![Creator].pc = "done"]
    /\ UNCHANGED <<mgr, mMu, sess, sMu, proc, created, closed, delivered, hdone, outputs,
                   clientOps, exitedEarly, mgrOther>>

(* ------------------------- the event handler -------------------------- *)
\* The body of OnTerminalSessionCreated or OnTerminalData: the handler calls
\* back into ListSessions, WriteDataWithSource or DeleteSession, or nothing.
H_Body(t) ==
    /\ At(t, "h_body")
    /\ \E op \in HandlerOps :
         task' = [task EXCEPT
                    ![t].op = op,
                    ![t].origin = IF op = "DeleteSession" THEN "delete" ELSE @,
                    ![t].pc = CASE op = "none" -> "h_return"
                                [] op = "ListSessions" -> "ls"
                                [] op = "WriteDataWithSource" -> "wd"
                                [] op = "DeleteSession" -> "ds_detach",
                    ![t].stack = IF op = "none" THEN @ ELSE <<"h_return">> \o @]
    /\ UNCHANGED <<mgr, mMu, sess, sMu, createdDone, proc, created, closed, delivered, hdone,
                   outputs, clientOps, exitedEarly, mgrOther>>

\* The handler method returns to the task that invoked it.
H_Return(t) ==
    /\ At(t, "h_return")
    /\ created' = IF t = Creator THEN "returned" ELSE created
    /\ hdone' = <<IF t = Creator THEN "created" ELSE "data", task[t].op>>
    /\ task' = Return([task EXCEPT ![t].op = "none"], t)
    /\ UNCHANGED <<mgr, mMu, sess, sMu, createdDone, proc, closed, delivered, outputs,
                   clientOps, exitedEarly, mgrOther>>

(* ------------------ ListSessions, WriteDataWithSource ----------------- *)
\* ListSessions: the order list is read under the manager read lock.
ListSessions(t) ==
    /\ At(t, "ls")
    /\ CanRLock(mMu)
    /\ mMu' = WithRLock(mMu, t)
    /\ task' = Return(task, t)
    /\ UNCHANGED <<mgr, sess, sMu, createdDone, proc, created, closed, delivered, hdone,
                   outputs, clientOps, exitedEarly, mgrOther>>

\* WriteDataWithSource: under the session lock, "PTY not available" when the
\* PTY is nil, else the bytes go to the PTY.
WriteDataWithSource(t) ==
    /\ At(t, "wd")
    /\ CanLock(sMu)
    /\ sMu' = WithLock(sMu, t)
    /\ task' = Return(task, t)
    /\ UNCHANGED <<mgr, mMu, sess, createdDone, proc, created, closed, delivered, hdone,
                   outputs, clientOps, exitedEarly, mgrOther>>

(* ------------- DeleteSession and deleteSessionIfExists ---------------- *)
\* A variant of DeleteSession that goes on to the cleanup and the notification when
\* detachSession has found no session.
DS_DetachIgnoresAbsent(t) ==
    /\ At(t, "ds_detach")
    /\ CanLock(mMu)
    /\ mMu' = WithLock(mMu, t)
    /\ mgr' = DetachSession(mgr, SessionId).mgr
    /\ task' = Call([task EXCEPT ![t].dh = mgr.eventHandler], t, "cl_lock", "ds_notify")
    /\ UNCHANGED <<sess, sMu, createdDone, proc, created, closed, delivered, hdone, outputs,
                   clientOps, exitedEarly, mgrOther>>

\* detachSession under the manager lock; "session not found" returns at once,
\* else session.cleanup() is called.
DS_Detach(t) ==
    /\ At(t, "ds_detach")
    /\ CanLock(mMu)
    /\ mMu' = WithLock(mMu, t)
    /\ LET d == DetachSession(mgr, SessionId) IN
       /\ mgr' = d.mgr
       /\ task' = IF d.removed
                  THEN Call([task EXCEPT ![t].dh = d.handler], t, "cl_lock", "ds_notify")
                  ELSE Return([task EXCEPT ![t].origin = "none"], t)
    /\ UNCHANGED <<sess, sMu, createdDone, proc, created, closed, delivered, hdone, outputs,
                   clientOps, exitedEarly, mgrOther>>

\* A variant of the end of DeleteSession that does not invoke the handler.
DS_NotifySkipped(t) ==
    /\ At(t, "ds_notify")
    /\ task' = [task EXCEPT ![t].pc = "ds_count"]
    /\ UNCHANGED <<mgr, mMu, sess, sMu, createdDone, proc, created, closed, delivered, hdone,
                   outputs, clientOps, exitedEarly, mgrOther>>

\* handler.OnTerminalSessionClosed(sessionID) when a handler was installed.
DS_Notify(t) ==
    /\ At(t, "ds_notify")
    /\ closed' = IF task[t].dh # NoHandler
                 THEN Append(closed, [by |-> task[t].origin, created |-> created])
                 ELSE closed
    /\ task' = [task EXCEPT ![t].pc = "ds_count"]
    /\ UNCHANGED <<mgr, mMu, sess, sMu, createdDone, proc, created, delivered, hdone,
                   outputs, clientOps, exitedEarly, mgrOther>>

\* m.countSessions() for the log line, then the call returns.
DS_Count(t) ==
    /\ At(t, "ds_count")
    /\ CanRLock(mMu)
    /\ mMu' = WithRLock(mMu, t)
    /\ task' = Return([task EXCEPT ![t].dh = NoHandler, ![t].origin = "none"], t)
    /\ UNCHANGED <<mgr, sess, sMu, createdDone, proc, created, closed, delivered, hdone,
                   outputs, clientOps, exitedEarly, mgrOther>>

(* ------------------------------ cleanup ------------------------------- *)
\* cleanup, lines 301-322: cancel, close the PTY, signal the child; the lock
\* is released for the wait on procWaitDone.  Without a child to wait for the call
\* goes on to lines 339-345.  sess.cleanups counts the calls that have returned and
\* sess.overlapped tells that a call began while another waited.
CL_Lock(t) ==
    /\ At(t, "cl_lock")
    /\ CanLock(sMu)
    /\ sMu' = WithLock(sMu, t)
    /\ proc' = IF sess.PTY # 0 THEN [proc EXCEPT ![sess.PTY].pty = "closed"] ELSE proc
    /\ IF sess.Cmd # 0 /\ sess.procWaitDone # 0
       THEN /\ sess' = [sess EXCEPT !.cancelled = TRUE, !.PTY = 0,
                                    !.overlapped = @ \/ \E u \in Tasks : At(u, "cl_wait")]
            /\ task' = [task EXCEPT ![t].pc = "cl_wait", ![t].done = sess.procWaitDone]
       ELSE /\ sess' = [sess EXCEPT !.cancelled = TRUE, !.PTY = 0, !.Cmd = 0,
                                    !.connections = {}, !.isActive = FALSE,
                                    !.cleanups = @ + 1]
            /\ task' = Return(task, t)
    /\ UNCHANGED <<mgr, mMu, createdDone, created, closed, delivered, hdone, outputs,
                   clientOps, exitedEarly, mgrOther>>

\* A variant of the end of cleanup that leaves isActive as it is.
CL_RelockKeepsActive(t) ==
    /\ At(t, "cl_wait")
    /\ proc[task[t].done].waitDone = "closed" \/ CleanupTimeout
    /\ CanLock(sMu)
    /\ sMu' = WithLock(sMu, t)
    /\ sess' = [sess EXCEPT !.Cmd = 0, !.connections = {}, !.cleanups = @ + 1]
    /\ task' = Return([task EXCEPT ![t].done = 0], t)
    /\ UNCHANGED <<mgr, mMu, createdDone, proc, created, closed, delivered, hdone, outputs,
                   clientOps, exitedEarly, mgrOther>>

\* cleanup, lines 323-345: once procWaitDone is closed or the timeouts have
\* fired the lock is taken again, Cmd = nil, the connections are deleted,
\* isActive = false.
CL_Relock(t) ==
    /\ At(t, "cl_wait")
    /\ proc[task[t].done].waitDone = "closed" \/ CleanupTimeout
    /\ CanLock(sMu)
    /\ sMu' = WithLock(sMu, t)
    /\ sess' = [sess EXCEPT !.Cmd = 0, !.connections = {}, !.isActive = FALSE,
                            !.cleanups = @ + 1]
    /\ task' = Return([task EXCEPT ![t].done = 0], t)
    /\ UNCHANGED <<mgr, mMu, createdDone, proc, created, closed, delivered, hdone, outputs,
                   clientOps, exitedEarly, mgrOther>>

(* -------------------------- waitProcessExit --------------------------- *)
\* Lines 262-272: Cmd, PTY and procWaitDone are read under the read lock.
W_Snapshot(g) ==
    /\ At(Waiter(g), "w_snapshot")
    /\ CanRLock(sMu)
    /\ sMu' = WithRLock(sMu, Waiter(g))
    /\ task' = [task EXCEPT ![Waiter(g)].cmd = sess.Cmd,
                            ![Waiter(g)].ptyFile = sess.PTY,
                            ![Waiter(g)].done = sess.procWaitDone,
                            ![Waiter(g)].pc = IF sess.Cmd = 0 \/ sess.procWaitDone = 0
                                              THEN "done" ELSE "w_wait"]
    /\ UNCHANGED <<mgr, mMu, sess, createdDone, proc, created, closed, delivered, hdone,
                   outputs, clientOps, exitedEarly, mgrOther>>

\* Lines 274-287: cmd.Wait() returns once the child has exited; isActive
\* becomes false, the PTY read at the start is closed and, the lock released,
\* procWaitDone is closed.
W_Mark(g) ==
    /\ At(Waiter(g), "w_wait")
    /\ proc[task[Waiter(g)].cmd].child = "exited"
    /\ CanLock(sMu)
    /\ sMu' = WithLock(sMu, Waiter(g))
    /\ LET f == task[Waiter(g)].ptyFile
           d == task[Waiter(g)].done
       IN /\ proc' = [h \in Starts |->
                        [proc[h] EXCEPT !.pty = IF h = f THEN "closed" ELSE @,
                                        !.waitDone = IF h = d THEN "closed" ELSE @]]
          /\ sess' = [sess EXCEPT !.isActive = FALSE,
                                  !.PTY = IF f # 0 /\ sess.PTY = f THEN 0 ELSE @]
    /\ task' = [task EXCEPT ![Waiter(g)].pc = "w_onexit"]
    /\ UNCHANGED <<mgr, mMu, createdDone, created, closed, delivered, hdone, outputs,
                   clientOps, exitedEarly, mgrOther>>

\* Lines 289-291 and manager.go 85-88: onExit waits for the created latch and
\* calls deleteSessionIfExists.
W_OnExit(g) ==
    /\ At(Waiter(g), "w_onexit")
    /\ AwaitCreatedDone(createdDone)
    /\ task' = Call([task EXCEPT ![Waiter(g)].origin = "exit"], Waiter(g), "ds_detach", "done")
    /\ UNCHANGED <<mgr, mMu, sess, sMu, createdDone, proc, created, closed, delivered, hdone,
                   outputs, clientOps, exitedEarly, mgrOther>>

\* The child process exits.
ChildExit(g) ==
    /\ proc[g].child = "running"
    /\ proc' = [proc EXCEPT ![g].child = "exited"]
    /\ exitedEarly' = (exitedEarly \/ (g = 1 /\ task[Creator].pc \notin {"done", "failed"}))
    /\ UNCHANGED <<mgr, mMu, sess, sMu, createdDone, task, created, closed, delivered, hdone,
                   outputs, clientOps, mgrOther>>

(* --------------------------- readPTYOutput ---------------------------- *)
\* Lines 434-446: the reader stops when the context is cancelled or the PTY
\* is nil, else it reads from the PTY it found.
R_Loop(g) ==
    /\ At(Reader(g), "r_loop")
    /\ IF sess.cancelled
       THEN /\ task' = [task EXCEPT ![Reader(g)].pc = "done"]
            /\ sMu' = sMu
       ELSE /\ CanRLock(sMu)
            /\ sMu' = WithRLock(sMu, Reader(g))
            /\ task' = [task EXCEPT ![Reader(g)].ptyFile = sess.PTY,
                                    ![Reader(g)].pc = IF sess.PTY = 0 THEN "done" ELSE "r_read"]
    /\ UNCHANGED <<mgr, mMu, sess, createdDone, proc, created, closed, delivered, hdone,
                   outputs, clientOps, exitedEarly, mgrOther>>

\* Line 448: ptyFile.Read returns bytes.
R_ReadData(g) ==
    /\ At(Reader(g), "r_read")
    /\ proc[task[Reader(g)].ptyFile].pty = "open"
    /\ outputs > 0
    /\ outputs' = outputs - 1
    /\ task' = [task EXCEPT ![Reader(g)].pc = "r_process"]
    /\ UNCHANGED <<mgr, mMu, sess, sMu, createdDone, proc, created, closed, delivered, hdone,
                   clientOps, exitedEarly, mgrOther>>

\* Lines 448-452: ptyFile.Read fails once the PTY is closed or the child is gone.
R_ReadError(g) ==
    /\ At(Reader(g), "r_read")
    /\ LET f == task[Reader(g)].ptyFile IN
       proc[f].pty = "closed" \/ proc[f].child = "exited"
    /\ task' = [task EXCEPT ![Reader(g)].pc = "done", ![Reader(g)].ptyFile = 0]
    /\ UNCHANGED <<mgr, mMu, sess, sMu, createdDone, proc, created, closed, delivered, hdone,
                   outputs, clientOps, exitedEarly, mgrOther>>

\* processRawPTYData, lines 476-490, and broadcastData, lines 403-412:
\* LastActive and the history write under the session lock, then
\* seqNum := atomic.AddInt64(&s.sequenceNumber, 1), then the handler is read
\* under the read lock.
R_Process(g) ==
    /\ At(Reader(g), "r_process")
    /\ CanLock(sMu)
    /\ sMu' = ReadHandler(WithLock(sMu, Reader(g)), Reader(g))
    /\ sess' = [sess EXCEPT !.sequenceNumber = @ + 1]
    /\ task' = [task EXCEPT ![Reader(g)].seqNum = sess.sequenceNumber + 1,
                            ![Reader(g)].handler = sess.eventHandler,
                            ![Reader(g)].pc = "r_call"]
    /\ UNCHANGED <<mgr, mMu, createdDone, proc, created, closed, delivered, hdone,
                   outputs, clientOps, exitedEarly, mgrOther>>

\* broadcastData, lines 421-426: handler.OnTerminalData(..., seqNum, ...) with
\* no lock held; without a handler the bytes are only logged.
R_Call(g) ==
    /\ At(Reader(g), "r_call")
    /\ IF task[Reader(g)].handler # NoHandler
       THEN /\ delivered' = Append(delivered, task[Reader(g)].seqNum)
            /\ task' = Call([task EXCEPT ![Reader(g)].seqNum = 0,
                                         ![Reader(g)].handler = NoHandler],
                            Reader(g), "h_body", "r_loop")
       ELSE /\ delivered' = delivered
            /\ task' = [task EXCEPT ![Reader(g)].seqNum = 0, ![Reader(g)].pc = "r_loop"]
    /\ UNCHANGED <<mgr, mMu, sess, sMu, createdDone, proc, created, closed, hdone, outputs,
                   clientOps, exitedEarly, mgrOther>>

(* ------------------------------ client -------------------------------- *)
\* A caller of the manager starts DeleteSession, ActivateSession or
\* SetEventHandler.
ClientCall ==
    /\ At(Client, "idle")
    /\ clientOps > 0
    /\ clientOps' = clientOps - 1
    /\ \/ task' = Call([task EXCEPT ![Client].origin = "delete"], Client, "ds_detach", "idle")
       \/ /\ FreeStart(proc) # 0
          /\ task' = Call(task, Client, "as_get", "idle")
       \/ \E h \in {NoHandler, TheHandler} :
            task' = Call([task EXCEPT ![Client].arg = h], Client, "seh_lock", "idle")
    /\ UNCHANGED <<mgr, mMu, sess, sMu, createdDone, proc, created, closed, delivered, hdone,
                   outputs, exitedEarly, mgrOther>>

\* ActivateSession, lines 224-229: the session is looked up under the read lock.
AS_Get ==
    /\ At(Client, "as_get")
    /\ CanRLock(mMu)
    /\ mMu' = WithRLock(mMu, Client)
    /\ task' = IF SessionId \in mgr.sessions
               THEN [task EXCEPT ![Client].pc = "as_start", ![Client].err = "nil"]
               ELSE Return([task EXCEPT ![Client].err = "session not found"], Client)
    /\ UNCHANGED <<mgr, sess, sMu, createdDone, proc, created, closed, delivered, hdone,
                   outputs, clientOps, exitedEarly, mgrOther>>

\* ActivateSession, lines 232-237: session.startPTY(cols, rows).
AS_StartPTY ==
    /\ At(Client, "as_start")
    /\ CanLock(sMu)
    /\ sMu' = WithLock(sMu, Client)
    /\ \E ok \in BOOLEAN :
         LET r == StartPTY(sess, proc, ok) IN
         /\ sess' = r.sess
         /\ proc' = r.proc
         /\ task' = Spawn(Return([task EXCEPT ![Client].err = r.msg], Client), r.started)
    /\ UNCHANGED <<mgr, mMu, createdDone, created, closed, delivered, hdone, outputs,
                   clientOps, exitedEarly, mgrOther>>

\* SetEventHandler, lines 260-263: the manager lock is taken and kept.
SEH_Lock ==
    /\ At(Client, "seh_lock")
    /\ CanLock(mMu)
    /\ mMu' = Lock(mMu, Client)
    /\ mgr' = [mgr EXCEPT !.eventHandler = task[Client].arg]
    /\ task' = [task EXCEPT ![Client].pc = "seh_sessions"]
    /\ UNCHANGED <<sess, sMu, createdDone, proc, created, closed, delivered, hdone, outputs,
                   clientOps, exitedEarly, mgrOther>>

\* SetEventHandler, lines 264-268: each registered session gets the handler
\* under its own lock; the manager lock is released on return.
SEH_Sessions ==
    /\ At(Client, "seh_sessions")
    /\ IF SessionId \in mgr.sessions
       THEN /\ CanLock(sMu)
            /\ sMu' = WithLock(sMu, Client)
            /\ sess' = [sess EXCEPT !.eventHandler = task[Client].arg]
       ELSE UNCHANGED <<sess, sMu>>
    /\ mMu' = Unlock(mMu, Client)
    /\ task' = Return([task EXCEPT ![Client].arg = NoHandler], Client)
    /\ UNCHANGED <<mgr, createdDone, proc, created, closed, delivered, hdone, outputs,
                   clientOps, exitedEarly, mgrOther>>

(* ----------------------------------------------------------------------- *)
\* The steps of one task.
TaskStep(t) ==
    \/ H_Body(t) \/ H_Return(t)
    \/ ListSessions(t) \/ WriteDataWithSource(t)
    \/ DS_Detach(t) \/ DS_Notify(t) \/ DS_Count(t)
    \/ CL_Lock(t) \/ CL_Relock(t)

CreatorStep ==
    \/ CS_Snapshot \/ CS_Register \/ CS_StartPTY \/ CS_Cancel \/ CS_Detach
    \/ CS_Refresh \/ CS_Install \/ CS_Created \/ CS_Return \/ CS_Fail

WaiterStep(g) == W_Snapshot(g) \/ W_Mark(g) \/ W_OnExit(g)

ReaderStep(g) ==
    \/ R_Loop(g) \/ R_ReadError(g) \/ R_Process(g) \/ R_Call(g)

ClientStep == AS_Get \/ AS_StartPTY \/ SEH_Lock \/ SEH_Sessions

NextMgr ==
    \/ CreatorStep
    \/ ClientCall
    \/ ClientStep
    \/ \E g \in Starts : WaiterStep(g) \/ ReaderStep(g) \/ R_ReadData(g) \/ ChildExit(g)
    \/ \E t \in Tasks : TaskStep(t)

\* A step of the program, as opposed to one of its environment (a call of the
\* client, the arrival of PTY output, the exit of the child).
ProgramStep ==
    \/ CreatorStep
    \/ ClientStep
    \/ \E g \in Starts : WaiterStep(g) \/ ReaderStep(g)
    \/ \E t \in Tasks : TaskStep(t)

\* The scheduler does not leave every runnable task waiting forever.
FairMgr == WF_vars(ProgramStep)

SpecMgr == InitMgr /\ [][NextMgr]_vars /\ FairMgr

\* The same program with room for a second PTY start to produce output.
InitMgrRace == InitMgrWith(RaceOutputs, RaceClientOps)

SpecMgrRace == InitMgrRace /\ [][NextMgr]_vars /\ FairMgr

(***************************************************************************)
(* Claims about the Manager and the Session.                               *)
(***************************************************************************)
\* C1: for a session created with an event handler installed whose child
\* exits before CreateSession returns, OnTerminalSessionClosed issued by the
\* exit path is invoked only after OnTerminalSessionCreated has returned: at
\* the moment of the call Created has returned, or it was not delivered at
\* all (no handler at creation) and never is.
C1_CreatedBeforeClosed ==
    \A i \in 1..Len(closed) :
        closed[i].by = "exit" =>
            \/ closed[i].created = "returned"
            \/ closed[i].created = "none" /\ created = "none"

\* C1 witness: the child exited before CreateSession returned, Created was
\* delivered and returned, and the exit path then delivered Closed.
C1_Witness ==
    /\ exitedEarly
    /\ created = "returned"
    /\ Len(closed) = 1
    /\ closed[1] = [by |-> "exit", created |-> "returned"]

\* C2 as claimed: the data events delivered to the handler, in the order of
\* delivery, carry strictly increasing sequence numbers.
C2_DeliveredIncreasing ==
    \A i, j \in 1..Len(delivered) : i < j => delivered[i] < delivered[j]

\* The tasks that invoke OnTerminalSessionCreated or OnTerminalData.
HandlerTasks == {Creator} \cup {Reader(g) : g \in Starts}

\* A task is inside OnTerminalSessionCreated or OnTerminalData.
InHandler(t) ==
    \/ task[t].pc \in {"h_body", "h_return"}
    \/ \E i \in 1..Len(task[t].stack) : task[t].stack[i] = "h_return"

\* C3: a handler that calls ListSessions, WriteDataWithSource or DeleteSession
\* from inside OnTerminalData or OnTerminalSessionCreated always returns.
C3_HandlerReturns ==
    \A t \in HandlerTasks : InHandler(t) ~> ~InHandler(t)

\* C3 witness: OnTerminalSessionCreated has returned, and an OnTerminalData
\* call has called DeleteSession, which delivered Closed, and has returned.
C3_Witness ==
    /\ \A t \in HandlerTasks : ~InHandler(t)
    /\ hdone = <<"data", "DeleteSession">>
    /\ created = "returned"
    /\ Len(delivered) = 1
    /\ Len(closed) = 1

(***************************************************************************)
(* Specification of the history filter alone: Filter is applied to a list  *)
(* of chunks and then to its own output.  The list holds one chunk with up *)
(* to MaxData bytes or two chunks with up to MaxShort bytes each, the      *)
(* bytes drawn from FilterBytes.                                            *)
(***************************************************************************)
\* The bytes the data is made of: the introducer, parameters and final bytes
\* of the CSI sequences the passes look for.
FilterBytes == {ESC, LBracket, Lower_c, Question, Digit1, Semicolon, UpperR}

\* TerminalDataChunk{Sequence, Data, Size}
DataChunk(seq, data) == [Sequence |-> seq, Data |-> data, IsNil |-> FALSE, Size |-> Len(data)]

\* No call of the filter made yet on the list xs.
FilterInput(xs) == [xs |-> xs, once |-> <<>>, twice |-> <<>>, calls |-> 0]

InitFilter ==
    /\ RingIdle
    /\ SBIdle
    /\ MgrIdle
    /\ HistIdle
    /\ InputIdle
    /\ ConnIdle
    /\ SrvIdle
    /\ LateIdle
    /\ \/ hf = FilterInput(<<>>)
       \/ \E k \in 0..MaxData : \E d \in [1..k -> FilterBytes] :
            hf = FilterInput(<<DataChunk(1, d)>>)
       \/ \E k, l \in 0..MaxShort :
            \E d \in [1..k -> FilterBytes], e \in [1..l -> FilterBytes] :
              hf = FilterInput(<<DataChunk(1, d), DataChunk(2, e)>>)

\* historyFilter.Filter(xs)
FilterOnce ==
    /\ hf.calls = 0
    /\ hf' = [hf EXCEPT !.once = Filter(hf.xs), !.calls = 1]
    /\ UNCHANGED hfOther

\* historyFilter.Filter applied to the output of the first call.
FilterTwice ==
    /\ hf.calls = 1
    /\ hf' = [hf EXCEPT !.twice = Filter(hf.once), !.calls = 2]
    /\ UNCHANGED hfOther

NextFilter == FilterOnce \/ FilterTwice

SpecFilter == InitFilter /\ [][NextFilter]_vars

(***************************************************************************)
(* Claims about the history filter.                                        *)
(***************************************************************************)
\* C12 as claimed: the history filter is idempotent, filtering the output of
\* the filter returns that output unchanged.
C12_FilterIdempotent ==
    hf.calls = 2 => hf.twice = hf.once

(***************************************************************************)
(* Specification of history requests: PTY output, some of it holding       *)
(* terminal queries and responses, is written to the ring buffer of a      *)
(* session, the history is cleared, and GET history?startSeq=&endSeq= is   *)
(* served.                                                                  *)
(***************************************************************************)
\* The output written: plain text, text around a cursor position report, a
\* primary DA query alone, an OSC 10 colour query alone.
HistPayloads ==
    { <<Lower_h>>,
      <<Lower_h, ESC, LBracket, Digit1, UpperR, Lower_l>>,
      <<ESC, LBracket, Lower_c>>,
      <<ESC, RBracket, Digit1, Digit0, Semicolon, Question, BEL>> }

\* The ring capacities: one that overflows and the one of the example.
HistCapacities == {2, 5}

InitHist ==
    /\ SBIdle
    /\ MgrIdle
    /\ HFIdle
    /\ InputIdle
    /\ ConnIdle
    /\ SrvIdle
    /\ LateIdle
    /\ \E n \in HistCapacities : ring = NewTerminalRingBuffer(n)
    /\ written = <<>>
    /\ lastRead = <<>>
    /\ hist = [requests |-> 0, startSeq |-> 0, endSeq |-> -1, out |-> <<>>]

\* processRawPTYData: ringBuffer.writeOwned(data)
HistWrite ==
    /\ ring.writeCount < MaxHistWrites
    /\ \E data \in HistPayloads :
         /\ ring' = WriteOwned(ring, data)
         /\ written' = Append(written, data)
    /\ UNCHANGED <<lastRead, hist, sbVars, mgrVars, hf, inp, cn, srv, lateVars>>

\* GET /api/sessions/{id}/history: startSeq defaults to 0 and endSeq to -1.
\* One request is served in a run.
HistRequest ==
    /\ hist.requests = 0
    /\ \E startSeq \in -1..MaxHistSeq, endSeq \in -1..MaxHistSeq :
         hist' = [requests |-> hist.requests + 1, startSeq |-> startSeq, endSeq |-> endSeq,
                  out |-> HistoryResponse(GetHistoryFromSequence(ring, startSeq), endSeq)]
    /\ ring' = [ring EXCEPT !.readCount = ring.readCount + 1]
    /\ UNCHANGED <<written, lastRead, sbVars, mgrVars, hf, inp, cn, srv, lateVars>>

NextHist == HistWrite \/ RingClear \/ HistRequest

SpecHist == InitHist /\ [][NextHist]_vars

(***************************************************************************)
(* Claims about history requests.                                          *)
(***************************************************************************)
\* A retained chunk survives replay filtering: it has no data or data is left.
SurvivesFilter(chunk) == Len(chunk.Data) = 0 \/ Len(FilterData(chunk.Data)) > 0

InRequestedRange(seq, startSeq, endSeq) ==
    /\ startSeq > 0 => seq >= startSeq
    /\ endSeq > 0 => seq <= endSeq

SequencesOf(out) == [i \in 1..Len(out) |-> out[i].Sequence]

\* C11: a history request returns, in strictly increasing sequence order,
\* exactly the retained chunks with sequence >= startSeq (all of them when
\* startSeq <= 0) that survive replay filtering, with their filtered data,
\* and none with a sequence above a positive endSeq.
C11_HistoryRange ==
    [][hist'.requests > hist.requests =>
         LET out == hist'.out
             retained == ReadAllChunks(ring)
         IN /\ \A i, j \in 1..Len(out) : i < j => out[i].Sequence < out[j].Sequence
            /\ \A k \in 1..Len(retained) :
                 (/\ InRequestedRange(retained[k].Sequence, hist'.startSeq, hist'.endSeq)
                  /\ SurvivesFilter(retained[k]))
                 <=> \E i \in 1..Len(out) :
                       /\ out[i].Sequence = retained[k].Sequence
                       /\ out[i].DataBase64 = Base64(FilterData(retained[k].Data))
            /\ \A i \in 1..Len(out) :
                 \E k \in 1..Len(retained) : out[i].Sequence = retained[k].Sequence
    ]_vars

\* C11 witness: three writes into capacity 5, history(startSeq=2) returned
\* the two chunks with sequences 2 and 3.
C11_Witness ==
    /\ ring.size = 5
    /\ Len(written) = 3
    /\ ring.nextSequence = 4
    /\ hist.requests = 1
    /\ hist.startSeq = 2
    /\ hist.endSeq = -1
    /\ SequencesOf(hist.out) = <<2, 3>>

(***************************************************************************)
(* Specification of the input side: calls of WriteDataWithSource with one  *)
(* of two inputs while the clock advances.                                 *)
(***************************************************************************)
Inputs == {<<Lower_c>>, <<Lower_h>>}

InitInput ==
    /\ RingIdle
    /\ SBIdle
    /\ MgrIdle
    /\ HFIdle
    /\ HistIdle
    /\ ConnIdle
    /\ SrvIdle
    /\ LateIdle
    /\ \E pty \in BOOLEAN : inp = NewInput(pty)

\* A call of WriteDataWithSource; the call is recorded with its time and result.
InputWrite ==
    /\ Len(inp.calls) < MaxInputs
    /\ \E data \in Inputs, writeOk \in BOOLEAN :
         LET r == WriteInput(inp, data, "conn", writeOk) IN
         inp' = [r.sess EXCEPT !.calls = Append(@, [at |-> inp.now, data |-> data,
                                                    result |-> r.result])]
    /\ UNCHANGED inpOther

\* Time passes.
InputTick ==
    /\ inp.now < MaxInputTime
    /\ inp' = [inp EXCEPT !.now = @ + 1]
    /\ UNCHANGED inpOther

NextInput == InputWrite \/ InputTick

SpecInput == InitInput /\ [][NextInput]_vars

(***************************************************************************)
(* Claims about the input side.                                            *)
(***************************************************************************)
\* The calls before call k that carried the same bytes / that reached the PTY.
IdenticalBefore(calls, k) == {i \in 1..(k - 1) : calls[i].data = calls[k].data}
WrittenBefore(calls, k) == {i \in 1..(k - 1) : calls[i].result = "written"}

Latest(set) == CHOOSE i \in set : \A j \in set : j <= i

\* The calls so far all carried the same bytes and none failed.
IdenticalWrites(calls) ==
    \A i \in 1..Len(calls) :
        /\ calls[i].data = calls[1].data
        /\ calls[i].result \in {"written", "dropped"}

\* C13 as claimed: among writes of identical bytes, a write less than the
\* window after the previous identical write is dropped, a write more than
\* the window after it is written.
C13_Original ==
    IdenticalWrites(inp.calls) =>
        \A k \in 2..Len(inp.calls) :
            LET prev == inp.calls[k - 1]
                call == inp.calls[k]
            IN /\ call.at - prev.at < InputWindow => call.result = "dropped"
               /\ call.at - prev.at > InputWindow => call.result = "written"

\* C13 amended: a write is dropped silently exactly when the last input that
\* reached the PTY carried the same bytes less than the window before; so a
\* write less than the window after the previous identical write that reached
\* the PTY (nothing else written since) is dropped and nothing is written,
\* and a write more than the window after it is passed to the PTY.
C13_DedupFromLastWritten ==
    /\ \A k \in 1..Len(inp.calls) :
         LET call == inp.calls[k]
             w == WrittenBefore(inp.calls, k)
         IN inp.PTY =>
              (call.result = "dropped" <=>
                 /\ w # {}
                 /\ inp.calls[Latest(w)].data = call.data
                 /\ call.at - inp.calls[Latest(w)].at < InputWindow)
    /\ inp.ptyWrites = [i \in 1..Len(SelectSeq(inp.calls, LAMBDA c : c.result = "written"))
                          |-> SelectSeq(inp.calls, LAMBDA c : c.result = "written")[i].data]

\* C13 witness: three identical writes, the second inside the window and
\* dropped, the third outside the window of the first and written.
C13_Witness ==
    /\ Len(inp.calls) = 3
    /\ IdenticalWrites(inp.calls)
    /\ inp.calls[1].result = "written"
    /\ inp.calls[2].result = "dropped"
    /\ inp.calls[2].at - inp.calls[1].at < InputWindow
    /\ inp.calls[3].result = "written"
    /\ inp.calls[3].at - inp.calls[1].at > InputWindow
    /\ Len(inp.ptyWrites) = 2

(***************************************************************************)
(* Specification of the connections of one session.  A client adds,        *)
(* removes and resizes connections and resizes the PTY explicitly; every   *)
(* resize goroutine spawned runs later, in any order with the calls.       *)
(***************************************************************************)
ConnIDs == {"", "c1", "c2"}
Sizes == {<<100, 30>>, <<80, 24>>, <<120, 20>>, <<10, 3>>, <<10000, 10000>>, <<70000, 70000>>}

InitConn ==
    /\ RingIdle
    /\ SBIdle
    /\ MgrIdle
    /\ HFIdle
    /\ HistIdle
    /\ InputIdle
    /\ SrvIdle
    /\ LateIdle
    /\ \E pty \in BOOLEAN : cn = NewConnections(pty, defaultCols, defaultRows)

ConnCall(s) ==
    /\ cn.ops < MaxConnOps
    /\ cn' = [s EXCEPT !.ops = @ + 1]
    /\ UNCHANGED <<cnOther, srv>>

ConnAdd == \E c \in ConnIDs : \E sz \in Sizes : ConnCall(AddConnection(cn, c, sz[1], sz[2]))

ConnRemove == \E c \in ConnIDs : ConnCall(RemoveConnection(cn, c))

ConnUpdate == \E c \in ConnIDs : \E sz \in Sizes :
    ConnCall(UpdateConnectionSize(cn, c, sz[1], sz[2]))

ConnResizePTY == \E sz \in Sizes : \E ok \in BOOLEAN : ConnCall(ResizePTY(cn, sz[1], sz[2], ok))

\* One of the spawned goroutines runs resizePTYToMinimumSize.
ConnResizeRun ==
    /\ cn.pending > 0
    /\ \E ok \in BOOLEAN :
         cn' = [resizePTYToMinimumSize(cn, ok) EXCEPT !.pending = @ - 1]
    /\ UNCHANGED <<cnOther, srv>>

NextConn == ConnAdd \/ ConnRemove \/ ConnUpdate \/ ConnResizePTY \/ ConnResizeRun

SpecConn == InitConn /\ [][NextConn]_vars

\* The elementwise minimum over the connections, raised to 20 columns and 5 rows; the
\* default when there is none.
PolicySize(connections) ==
    IF DOMAIN connections = {}
    THEN <<80, 24>>
    ELSE LET cols == Least({connections[c].Cols : c \in DOMAIN connections})
             rows == Least({connections[c].Rows : c \in DOMAIN connections})
         IN  <<IF cols < 20 THEN 20 ELSE cols, IF rows < 5 THEN 5 ELSE rows>>

\* Every resize a connection call triggered has run, each set the size, and the last
\* to set the size was one of them.
ResizesSettled ==
    /\ cn.PTY
    /\ cn.triggered > 0
    /\ cn.pending = 0
    /\ ~cn.failed
    /\ cn.lastSetsize = "minimum"

FitsWinsize(size) == size[1] < Uint16Range /\ size[2] < Uint16Range

C15_ClampedToMax ==
    LET size == getMinimumTerminalSize(cn.connections)
    IN  /\ size[1] <= maxTerminalCols
        /\ size[2] <= maxTerminalRows
        /\ (/\ DOMAIN cn.connections # {}
            /\ \A c \in DOMAIN cn.connections :
                 /\ cn.connections[c].Cols > maxTerminalCols
                 /\ cn.connections[c].Rows > maxTerminalRows)
           => size = <<maxTerminalCols, maxTerminalRows>>

(***************************************************************************)
(* Specification of the event streams of one session: streams open with a  *)
(* connId or without, clients attach, the session broadcasts its events    *)
(* one at a time, write loops drain the send channels, peers close their   *)
(* streams, and closed streams unregister.                                 *)
(***************************************************************************)
StreamConnIDs == {"", "c1"}
AttachSizes == {<<100, 30>>}

InitSrv ==
    /\ RingIdle
    /\ SBIdle
    /\ MgrIdle
    /\ HFIdle
    /\ HistIdle
    /\ InputIdle
    /\ cn = NewConnections(TRUE, defaultCols, defaultRows)
    /\ srv = NewServer
    /\ LateIdle

\* A stream opens: handleWS registers its client.
WsOpen ==
    \E k \in Streams : \E c \in StreamConnIDs :
        /\ srv.clients[k].state = "none"
        /\ \A j \in Streams : j < k => srv.clients[j].state # "none"
        /\ srv' = registerWS(srv, k, c)
        /\ UNCHANGED srvOther

\* The attach request of a client.
WsAttach ==
    \E c \in StreamConnIDs \ {""} : \E sz \in AttachSizes :
        /\ cn.ops < MaxAttach
        /\ cn' = [AddConnection(cn, c, sz[1], sz[2]) EXCEPT !.ops = @ + 1]
        /\ UNCHANGED <<srv, cnOther>>

\* The peer closes its stream.
WsPeerClose ==
    \E k \in Streams :
        /\ srv.clients[k].state = "registered"
        /\ srv.clients[k].conn = "open"
        /\ srv' = [srv EXCEPT !.clients[k].conn = "peer closed"]
        /\ UNCHANGED srvOther

\* conn.Read fails on a closed websocket and handleWS runs the deferred unregisterWS.
WsUnregister ==
    \E k \in Streams :
        /\ srv.clients[k].state = "registered"
        /\ srv.clients[k].conn # "open"
        /\ srv' = unregisterWS(srv, k)
        /\ UNCHANGED srvOther

\* removeTerminalConnection, after wsMu is released.
WsRemoveConnection ==
    \E k \in Streams :
        /\ srv.clients[k].state = "unregistering"
        /\ srv' = handlerReturns(srv, k)
        /\ cn' = RemoveConnection(cn, srv.clients[k].connID)
        /\ UNCHANGED cnOther

\* The session delivers its next event: OnTerminalData calls broadcast.
WsBroadcast ==
    /\ srv.clientsToSend = {}
    /\ srv.sequence < MaxEvents
    /\ srv' = broadcast(srv)
    /\ UNCHANGED srvOther

WsBroadcastSend ==
    \E k \in srv.clientsToSend :
        /\ srv' = broadcastSend(srv, k)
        /\ UNCHANGED srvOther

WsWriteLoop ==
    \E k \in Streams :
        /\ srv.clients[k].writeLoop
        /\ srv.clients[k].send # <<>>
        /\ srv' = writeLoop(srv, k)
        /\ UNCHANGED srvOther

NextSrv ==
    \/ WsOpen
    \/ WsAttach
    \/ WsPeerClose
    \/ WsUnregister
    \/ WsRemoveConnection
    \/ WsBroadcast
    \/ WsBroadcastSend
    \/ WsWriteLoop
    \/ ConnResizeRun

SpecSrv == InitSrv /\ [][NextSrv]_vars

\* The registered streams other than k that carry the connId of k.
OtherStreams(s, k) ==
    {j \in wsBySession(s) \ {k} : s.clients[j].connID = s.clients[k].connID}

\* What the unregistration of a stream does with the connection of its connId: with
\* another registered stream carrying the connId the connection and its size stay as
\* they are and no removal follows; without one the removal follows.
UnregisterStep(k) ==
    (/\ srv.clients[k].state = "registered"
     /\ srv'.clients[k].state # "registered"
     /\ srv.clients[k].connID # "")
    => /\ cn' = cn
       /\ IF OtherStreams(srv, k) # {}
          THEN srv'.clients[k].state = "closed"
          ELSE srv'.clients[k].state = "unregistering"

\* The removal that follows drops the connection and triggers a resize if it was there.
RemoveStep(k) ==
    (srv.clients[k].state = "unregistering" /\ srv'.clients[k].state = "closed")
    => /\ srv.clients[k].connID \notin DOMAIN cn'.connections
       /\ srv.clients[k].connID \in DOMAIN cn.connections => cn'.pending = cn.pending + 1

\* A connection leaves the session in the removal of a stream that carried it only.
DropStep ==
    \A c \in DOMAIN cn.connections \ DOMAIN cn'.connections :
        \E k \in Streams :
            /\ srv.clients[k].state = "unregistering"
            /\ srv'.clients[k].state = "closed"
            /\ srv.clients[k].connID = c

\* When a connection is dropped, no registered stream carries its connId.
DropLeavesNoStream ==
    \A c \in DOMAIN cn.connections \ DOMAIN cn'.connections :
        \A k \in wsBySession(srv') : srv'.clients[k].connID # c

NoGap(seqs) == \A i \in 1..(Len(seqs) - 1) : seqs[i + 1] = seqs[i] + 1

\* C17: a broadcast that finds the queue of a subscriber full does not block and closes
\* that subscriber; every other subscriber receives the events with no gap: what was
\* written to a websocket has no gap, what a subscriber that was never found full has
\* written and queued has no gap and reaches the last event sent to it, and a
\* subscriber that missed an event is closed.
C17_SlowConsumerClosed ==
    /\ srv.clientsToSend # {} => ENABLED WsBroadcastSend
    /\ \A k \in Streams :
        /\ NoGap(srv.clients[k].written)
        /\ srv.clients[k].missed # {} => srv.clients[k].conn \in {"policy violation", "peer closed"}
        /\ srv.clients[k].conn = "open" => NoGap(srv.clients[k].written \o srv.clients[k].send)
        /\ (/\ srv.clients[k].state = "registered"
            /\ srv.clients[k].missed = {}
            /\ srv.clients[k].writeLoop
            /\ k \notin srv.clientsToSend
            /\ srv.clients[k].written \o srv.clients[k].send # <<>>)
           => LET got == srv.clients[k].written \o srv.clients[k].send
              IN  got[Len(got)] = srv.sequence

\* Subscriber 1 was found full at event 2 and closed; subscriber 2 has received events
\* 1, 2 and 3.
C17_Witness ==
    /\ srv.clients[1].missed = {2}
    /\ srv.clients[1].conn = "policy violation"
    /\ srv.clients[2].conn = "open"
    /\ srv.clients[2].written = <<1, 2, 3>>

(***************************************************************************)
(* Further properties of the Manager, under SpecMgr.                       *)
(***************************************************************************)
\* The tasks that are about to invoke OnTerminalSessionClosed and do so in this step.
Notifiers == {t \in Tasks : At(t, "ds_notify") /\ task'[t].pc # "ds_notify"}

\* GetSession and ListSessions do not return the session.
NotInRegistry(m) ==
    /\ SessionId \notin m.sessions
    /\ \A i \in 1..Len(m.sessionOrder) : m.sessionOrder[i] # SessionId

\* What cleanup leaves behind: the context cancelled, no PTY, no child, not active.
CleanedUp(s) == s.cancelled /\ s.PTY = 0 /\ s.Cmd = 0 /\ ~s.isActive

\* C18: for DeleteSession and for the auto-reap on child exit, OnTerminalSessionClosed
\* is invoked only after the session has left the registry and its cleanup has
\* completed, and the invoking task does not hold the registry lock.
C18_ClosedAfterCleanup ==
    [][Len(closed') > Len(closed) =>
          /\ NotInRegistry(mgr)
          /\ CleanedUp(sess)
          /\ \A g \in Starts : proc[g].pty # "open"
          /\ \A t \in Notifiers : mMu.w # t /\ t \notin mMu.r
          /\ closed'[Len(closed')].by \in {"delete", "exit"}]_vars

\* C18 witness: the session was active, the child exited, and the exit path delivered
\* Closed after the removal and the cleanup.
C18_Witness ==
    /\ Len(closed) = 1
    /\ closed[1].by = "exit"
    /\ proc[1].child = "exited"
    /\ proc[1].pty = "closed"
    /\ NotInRegistry(mgr)
    /\ CleanedUp(sess)

\* C19: when CreateSession has returned the error of a failed PTY start, the session
\* is in neither the sessions map nor the order list, its context is cancelled, it is
\* cleaned up, and OnTerminalSessionCreated was not delivered for it.
C19_FailureRollsBack ==
    task[Creator].pc = "failed" =>
        /\ NotInRegistry(mgr)
        /\ CleanedUp(sess)
        /\ \A g \in Starts : proc[g].pty # "open"
        /\ created = "none"

\* C19 witness: pty.Start failed in CreateSession with nothing else going on, and
\* CreateSession has returned its error.
C19_Witness ==
    /\ task[Creator].pc = "failed"
    /\ proc[1].child = "none"
    /\ closed = <<>>
    /\ clientOps = MaxClientOps
    /\ sess.cancelled
    /\ NotInRegistry(mgr)

\* The startPTY call of ActivateSession returns in this step.
ActivationReturns == At(Client, "as_start") /\ task'[Client].pc # "as_start"

\* The step starts no PTY and no reader or waiter task and leaves the session alone.
StartsNothing ==
    /\ sess' = sess
    /\ proc' = proc
    /\ \A g \in Starts : task'[Reader(g)] = task[Reader(g)] /\ task'[Waiter(g)] = task[Waiter(g)]

C21_HandlerSlotsAgree ==
    (/\ task[Client].pc \notin {"seh_lock", "seh_sessions"}
     /\ SessionId \in mgr.sessions)
    => sess.eventHandler = mgr.eventHandler

(***************************************************************************)
(* Specification of the registry of the Manager: CreateSession calls       *)
(* register sessions and may fail to start the PTY, DeleteSession and the  *)
(* exit of a child detach a session, Cleanup empties the registry.  Every  *)
(* one of these works on the map and the order list under m.mu.            *)
(***************************************************************************)
InitReg ==
    /\ RingIdle
    /\ SBIdle
    /\ MgrIdle
    /\ HFIdle
    /\ HistIdle
    /\ InputIdle
    /\ ConnIdle
    /\ SrvIdle
    /\ CoIdle
    /\ HookIdle
    /\ ApiIdle
    /\ SuppressIdle
    /\ WorkdirIdle
    /\ NameIdle
    /\ SeqIdle
    /\ reg = NewRegistry

\* CreateSession up to the registration.
RegCreate ==
    \E randOk \in BOOLEAN :
        LET id == generateSessionID(reg.calls + 1, randOk) IN
        /\ reg.calls < MaxCreates
        /\ reg' = [RegisterSession(reg, id) EXCEPT
                      !.registered = Append(@, id),
                      !.calls = @ + 1,
                      !.starting = @ \cup {id}]
        /\ UNCHANGED regOther

\* startPTY of a CreateSession returns: on an error the session is detached again.
RegStarted ==
    \E id \in reg.starting : \E ok \in BOOLEAN :
        /\ reg' = [(IF ok THEN reg ELSE DetachSession(reg, id).mgr) EXCEPT
                      !.starting = @ \ {id}]
        /\ UNCHANGED regOther

\* DeleteSession(id), or deleteSessionIfExists(id) after the exit of the child.
RegDelete ==
    \E id \in {generateSessionID(n, ok) : n \in 1..MaxCreates, ok \in BOOLEAN} :
        /\ reg.ops < MaxRegOps
        /\ reg' = [DetachSession(reg, id).mgr EXCEPT !.ops = @ + 1]
        /\ UNCHANGED regOther

\* Manager.Cleanup.
RegCleanup ==
    /\ reg.ops < MaxRegOps
    /\ reg' = [CleanupSessions(reg) EXCEPT !.ops = @ + 1]
    /\ UNCHANGED regOther

NextReg == RegCreate \/ RegStarted \/ RegDelete \/ RegCleanup

SpecReg == InitReg /\ [][NextReg]_vars

\* The place of the last registration of id.
LastRegistration(id) ==
    CHOOSE i \in 1..Len(reg.registered) :
        /\ reg.registered[i] = id
        /\ \A j \in (i + 1)..Len(reg.registered) : reg.registered[j] # id

\* C22: the order list holds exactly the keys of the sessions map, each once, in the
\* order of creation, and ListSessions returns every registered session once in that
\* order.
C22_OrderMatchesSessions ==
    /\ {reg.sessionOrder[i] : i \in 1..Len(reg.sessionOrder)} = reg.sessions
    /\ \A i, j \in 1..Len(reg.sessionOrder) :
         i < j => /\ reg.sessionOrder[i] # reg.sessionOrder[j]
                  /\ LastRegistration(reg.sessionOrder[i]) < LastRegistration(reg.sessionOrder[j])
    /\ ListSessionsOf(reg) = reg.sessionOrder

(***************************************************************************)
(* Specification of TerminalSessionsCoordinator: refresh, createSession,   *)
(* updateSessionMeta, deleteSession and dispose calls, the replies of the  *)
(* transport in any order, and sessions that end on the server.            *)
(***************************************************************************)
InitCo ==
    /\ RingIdle
    /\ SBIdle
    /\ MgrIdle
    /\ HFIdle
    /\ HistIdle
    /\ InputIdle
    /\ ConnIdle
    /\ SrvIdle
    /\ RegIdle
    /\ HookIdle
    /\ ApiIdle
    /\ SuppressIdle
    /\ WorkdirIdle
    /\ NameIdle
    /\ SeqIdle
    /\ co = NewCoordinator

\* refresh(), from a caller or the poll timer.
CoRefresh ==
    /\ co.refreshSeq < MaxCoSeq
    /\ co' = runRefresh(co, FALSE)
    /\ UNCHANGED coOther

\* The reply of listSessions for a refresh: an error, or the sessions the server has.
CoListReply ==
    \E seq \in DOMAIN co.refreshes : \E ok \in BOOLEAN :
        /\ co.refreshes[seq] = "listing"
        /\ co' = refreshReply(co, seq, ok, co.server)
        /\ UNCHANGED coOther

\* createSession: the transport has made the session id on the server.
CoCreate ==
    \E id \in CoIds \ co.server :
        /\ co' = setSessions([co EXCEPT !.server = @ \cup {id}],
                             FilterPending(co.sessions \cup {id}, co.pendingDeletions),
                             co.renamed \ {id})
        /\ UNCHANGED coOther

\* updateSessionMeta(id, {name}).
CoUpdateMeta ==
    \E id \in CoIds :
        /\ co' = IF id \in co.pendingDeletions \/ co.sessions = {}
                  THEN co
                  ELSE setSessions(co, co.sessions, co.renamed \cup ({id} \cap co.sessions))
        /\ UNCHANGED coOther

\* deleteSession(id) up to the await of the transport, lines 243-255.  A call for the
\* same id that waits for its forced refresh notes that the id is to be deleted again.
CoDelete ==
    \E id \in CoIds : \E k \in DOMAIN co.dels :
        /\ co.dels[k].pc = "none"
        /\ \A j \in 1..(k - 1) : co.dels[j].pc # "none"
        /\ co' = [setSessions([co EXCEPT !.pendingDeletions = @ \cup {id}],
                              co.sessions \ {id}, co.renamed)
                  EXCEPT !.dels = [j \in DOMAIN @ |->
                      IF j = k THEN [@[j] EXCEPT !.id = id, !.pc = "transport"]
                      ELSE IF @[j].pc = "refresh" /\ @[j].id = id
                           THEN [@[j] EXCEPT !.again = TRUE]
                      ELSE @[j]]]
        /\ UNCHANGED coOther

\* The transport has deleted the session: lines 256-259.
CoDeleteDone ==
    \E k \in DOMAIN co.dels :
        /\ co.dels[k].pc = "transport"
        /\ co.refreshSeq < MaxCoSeq
        /\ co' = [runRefresh(Overtake([co EXCEPT !.pendingDeletions = @ \ {co.dels[k].id},
                                                 !.server = @ \ {co.dels[k].id}], k),
                             FALSE)
                  EXCEPT !.dels[k].pc = "resolved"]
        /\ UNCHANGED coOther

\* The transport has failed: lines 260-265.
CoDeleteFailed ==
    \E k \in DOMAIN co.dels :
        /\ co.dels[k].pc = "transport"
        /\ co.refreshSeq < MaxCoSeq
        /\ co' = deleteFailed(Overtake(co, k), k)
        /\ UNCHANGED coOther

\* The forced refresh has settled: the call rejects with the error of the transport,
\* lines 266-270.
CoDeleteReject ==
    \E k \in DOMAIN co.dels :
        LET d == co.dels[k] IN
        /\ d.pc = "refresh"
        /\ d.forced # 0 => co.refreshes[d.forced] # "listing"
        /\ co' = [co EXCEPT !.dels[k].pc = "rejected",
                            !.dels[k].listedAtReject = d.id \in co.server,
                            !.dels[k].backAtReject = d.id \in co.sessions,
                            !.dels[k].disposedAtReject = co.disposed,
                            !.dels[k].pendingAtReject = d.id \in co.pendingDeletions]
        /\ UNCHANGED coOther

\* dispose().
CoDispose ==
    /\ ~co.disposed
    /\ co' = [co EXCEPT !.disposed = TRUE, !.sessions = {}, !.renamed = {},
                        !.pendingDeletions = {}]
    /\ UNCHANGED coOther

\* A session ends on the server.
CoServerExit ==
    \E id \in co.server :
        /\ co' = [co EXCEPT !.server = @ \ {id}]
        /\ UNCHANGED coOther

NextCo ==
    \/ CoRefresh
    \/ CoListReply
    \/ CoCreate
    \/ CoUpdateMeta
    \/ CoDelete
    \/ CoDeleteDone
    \/ CoDeleteFailed
    \/ CoDeleteReject
    \/ CoDispose
    \/ CoServerExit

SpecCo == InitCo /\ [][NextCo]_vars

\* The deleteSession calls of the coordinator that have begun and not settled.
DeleteInFlight(k) == co.dels[k].pc \in {"transport", "refresh"}

\* C23 as stated: while a deleteSession(id) call has not settled, the snapshot does not
\* hold id.
C23_Original ==
    \A k \in DOMAIN co.dels : DeleteInFlight(k) => co.dels[k].id \notin co.sessions

\* C23: from the start of a deleteSession(id) call until the transport replies to it or
\* to another deleteSession(id) call that overlaps it, the snapshot does not hold id,
\* whatever refresh, createSession or updateSessionMeta results are applied meanwhile.
C23_HiddenWhilePending ==
    \A k \in DOMAIN co.dels :
        (co.dels[k].pc = "transport" /\ ~co.dels[k].overtaken)
            => co.dels[k].id \notin co.sessions

\* A refresh whose list had the id has been applied while the only deleteSession call
\* for the id waits for the transport.
C23_Witness ==
    \E k \in DOMAIN co.dels :
        /\ co.dels[k].pc = "transport"
        /\ co.dels[k].filtered
        /\ ~co.dels[k].overtaken
        /\ \A j \in DOMAIN co.dels : j # k => co.dels[j].id # co.dels[k].id
        /\ co.dels[k].id \in co.server
        /\ co.sessions # {}

ForcedRefreshListed(k) ==
    /\ co.dels[k].forced # 0
    /\ co.refreshes[co.dels[k].forced] \in {"applied", "dropped"}

C25_AppliedInOrder ==
    \A i, j \in 1..Len(co.applied) : i < j => co.applied[i] < co.applied[j]

\* A refresh has been dropped because a later one had been applied.
C25_Witness ==
    \E seq \in DOMAIN co.refreshes :
        /\ co.refreshes[seq] = "dropped"
        /\ \E i \in 1..Len(co.applied) : co.applied[i] > seq

(***************************************************************************)
(* Specification of useTerminalInstance: data events of the session the    *)
(* hook listens to arrive in any order, the queue is written to the        *)
(* terminal, and the sessionId prop changes.                               *)
(***************************************************************************)
InitHook ==
    /\ RingIdle
    /\ SBIdle
    /\ MgrIdle
    /\ HFIdle
    /\ HistIdle
    /\ InputIdle
    /\ ConnIdle
    /\ SrvIdle
    /\ RegIdle
    /\ CoIdle
    /\ ApiIdle
    /\ SuppressIdle
    /\ WorkdirIdle
    /\ NameIdle
    /\ SeqIdle
    /\ hk = NewHook

\* The handler of onTerminalData, lines 490-497, for the next event of the session.
HookData ==
    \E sequence \in 1..MaxHookSeq :
        /\ sequence \notin hk.emitted[hk.sessionId]
        /\ hk' = [addChunkToQueue(hk, [sequence |-> sequence, session |-> hk.sessionId])
                  EXCEPT !.emitted[hk.sessionId] = @ \cup {sequence}]
        /\ UNCHANGED hkOther

\* A run of processDataQueue.
HookProcess ==
    /\ hk.dataQueue # <<>>
    /\ hk' = processDataQueue(hk)
    /\ UNCHANGED hkOther

\* The sessionId prop changes: the effect of lines 485-502 ends the subscription of the
\* old session and subscribes to the new one.
HookSwitch ==
    \E id \in HookSessions \ {hk.sessionId} :
        /\ hk.switches < MaxHookSwitches
        /\ hk' = [hk EXCEPT !.sessionId = id, !.switches = @ + 1]
        /\ UNCHANGED hkOther

NextHook == HookData \/ HookProcess \/ HookSwitch

SpecHook == InitHook /\ [][NextHook]_vars

\* C26: the chunks of a session are written to the terminal in the order of their
\* sequences, also for a session the hook has changed to after chunks of another one.
C26_WritesInSequenceOrder ==
    \A i, j \in 1..Len(hk.writes) :
        (i < j /\ hk.writes[i].session = hk.writes[j].session)
            => hk.writes[i].sequence < hk.writes[j].sequence

(***************************************************************************)
(* Specification of the HTTP API: create, attach and resize requests with  *)
(* sizes in and out of the range of limits.go, and the resize goroutines   *)
(* of the session.                                                         *)
(***************************************************************************)
ApiSizes == {<<0, 0>>, <<80, 24>>, <<100, 30>>, <<10, 3>>, <<600, 300>>, <<100, 3>>}
ApiConnIDs == {"", "c1", "c2"}

InitApi ==
    /\ RingIdle
    /\ SBIdle
    /\ MgrIdle
    /\ HFIdle
    /\ HistIdle
    /\ InputIdle
    /\ ConnIdle
    /\ SrvIdle
    /\ RegIdle
    /\ CoIdle
    /\ HookIdle
    /\ SuppressIdle
    /\ WorkdirIdle
    /\ NameIdle
    /\ SeqIdle
    /\ api = NewApi

\* The reply r to a request is noted with the request.
ApiReply(action, cols, rows, r, exists) ==
    /\ api.requests < MaxApiRequests
    /\ cn' = r.sess
    /\ api' = [exists |-> exists, action |-> action, cols |-> cols, rows |-> rows,
               status |-> r.status,
               changed |-> (SessionSizes(r.sess) # SessionSizes(cn) \/ exists # api.exists),
               requests |-> api.requests + 1]
    /\ UNCHANGED apiOther

ApiCreate ==
    \E sz \in ApiSizes : \E ok \in BOOLEAN :
        /\ ~api.exists
        /\ ApiReply("create", sz[1], sz[2], handleCreate(cn, sz[1], sz[2], ok), ok)

ApiAttach ==
    \E sz \in ApiSizes : \E c \in ApiConnIDs :
        ApiReply("attach", sz[1], sz[2], handleAttach(cn, api.exists, c, sz[1], sz[2]),
                 api.exists)

ApiResize ==
    \E sz \in ApiSizes : \E c \in ApiConnIDs : \E ok \in BOOLEAN :
        ApiReply("resize", sz[1], sz[2],
                 handleResize(cn, api.exists, c, sz[1], sz[2], ok), api.exists)

\* One of the spawned goroutines runs resizePTYToMinimumSize.
ApiResizeRun ==
    /\ cn.pending > 0
    /\ \E ok \in BOOLEAN :
         cn' = [resizePTYToMinimumSize(cn, ok) EXCEPT !.pending = @ - 1]
    /\ UNCHANGED <<api, apiOther>>

NextApi == ApiCreate \/ ApiAttach \/ ApiResize \/ ApiResizeRun

SpecApi == InitApi /\ [][NextApi]_vars

\* The request sent a number of columns or rows that is not in the range of limits.go.
SuppliesOutOfRange(cols, rows) ==
    \/ cols # 0 /\ ~validateDims(cols, IF rows = 0 THEN defaultRows ELSE rows)
    \/ rows # 0 /\ ~validateDims(IF cols = 0 THEN defaultCols ELSE cols, rows)

\* C27: a create, attach or resize request with cols outside 20..500 or rows outside
\* 5..200 is answered with status 400 and changes no size of the PTY or of a connection.
C27_OutOfRangeRejected ==
    (api.action # "none" /\ SuppliesOutOfRange(api.cols, api.rows))
        => (api.status = 400 /\ ~api.changed)

(***************************************************************************)
(* Specification of the resize-suppression window: the PTY is started,     *)
(* resized with and without success, the clock runs and output is read.    *)
(***************************************************************************)
InitSuppress ==
    /\ RingIdle
    /\ SBIdle
    /\ MgrIdle
    /\ HFIdle
    /\ HistIdle
    /\ InputIdle
    /\ ConnIdle
    /\ SrvIdle
    /\ RegIdle
    /\ CoIdle
    /\ HookIdle
    /\ ApiIdle
    /\ WorkdirIdle
    /\ NameIdle
    /\ SeqIdle
    /\ rs = NewSuppress

RsTick ==
    /\ rs.now < MaxSuppressTime
    /\ rs' = [rs EXCEPT !.now = @ + 1]
    /\ UNCHANGED rsOther

\* startPTY of CreateSession or ActivateSession.
RsStart ==
    /\ ~rs.PTY
    /\ rs' = [startSuppress(rs) EXCEPT
                 !.window = [open |-> TRUE, end |-> rs.now + InitialResizeSuppress]]
    /\ UNCHANGED rsOther

\* ResizePTY, or resizePTYToMinimumSize after a change of the connections.
RsResize ==
    \E ok \in BOOLEAN :
        /\ rs.PTY
        /\ rs.resizes < MaxSuppressResizes
        /\ rs' = [resizeSuppress(rs, ok) EXCEPT
                     !.window = [open |-> ok, end |-> rs.now + ResizeSuppress],
                     !.resizes = @ + 1]
        /\ UNCHANGED rsOther

\* readPTYOutput has read bytes: processRawPTYData.
RsOutput ==
    LET data == Len(rs.outputs) + 1 IN
    /\ rs.PTY
    /\ Len(rs.outputs) < MaxSuppressOutputs
    /\ rs' = [processRawPTYData(rs, data) EXCEPT
                 !.outputs = Append(@, [data |-> data, at |-> rs.now,
                                        open |-> rs.window.open /\ rs.now <= rs.window.end])]
    /\ UNCHANGED rsOther

NextSuppress == RsTick \/ RsStart \/ RsResize \/ RsOutput

SpecSuppress == InitSuppress /\ [][NextSuppress]_vars

InSeq(x, s) == \E i \in 1..Len(s) : s[i] = x

\* C28: an output read while the window of the last start or resize is open is not
\* written to the ring buffer and is broadcast; an output read when no window is open is
\* written to the ring buffer and broadcast.
C28_SuppressedWhileWindowOpen ==
    \A i \in 1..Len(rs.outputs) :
        /\ InSeq(rs.outputs[i].data, rs.broadcast)
        /\ rs.outputs[i].open <=> ~InSeq(rs.outputs[i].data, rs.ringBuffer)

\* An output was read in the window of the start and left out, one in the window of a
\* resize and left out, and a later one, after that window, was written.
C28_Witness ==
    \E i, j, k \in 1..Len(rs.outputs) :
        /\ i < j /\ j < k
        /\ rs.outputs[i].open /\ ~InSeq(i, rs.ringBuffer) /\ InSeq(i, rs.broadcast)
        /\ rs.resizes > 0
        /\ rs.outputs[j].open /\ rs.outputs[j].at > InitialResizeSuppress
        /\ ~InSeq(j, rs.ringBuffer)
        /\ rs.window.open /\ rs.outputs[k].at > rs.window.end
        /\ ~rs.outputs[k].open /\ InSeq(k, rs.ringBuffer)

(***************************************************************************)
(* The Manager with a client that also calls Session.Close and attaches a  *)
(* connection to the session it holds.                                     *)
(***************************************************************************)
\* The client holds the session once CreateSession has made it.
ClientHoldsSession == task[Creator].pc \notin {"cs_snapshot", "cs_register"}

\* session.Close() by the client: cleanup.
CloseCall ==
    /\ At(Client, "idle")
    /\ clientOps > 0
    /\ ClientHoldsSession
    /\ clientOps' = clientOps - 1
    /\ task' = Call(task, Client, "cl_lock", "idle")
    /\ UNCHANGED <<mgr, mMu, sess, sMu, createdDone, proc, created, closed, delivered, hdone,
                   outputs, exitedEarly, mgrOther>>

\* session.AddConnection(connID, cols, rows) by the client, under the lock of the
\* session.
AttachCall ==
    /\ At(Client, "idle")
    /\ clientOps > 0
    /\ ClientHoldsSession
    /\ CanLock(sMu)
    /\ clientOps' = clientOps - 1
    /\ sMu' = WithLock(sMu, Client)
    /\ sess' = [sess EXCEPT !.connections = @ \cup {"c1"}]
    /\ UNCHANGED <<mgr, mMu, task, createdDone, proc, created, closed, delivered, hdone,
                   outputs, exitedEarly, mgrOther>>

InitMgrClose == InitMgrWith(MaxOutputs, CloseClientOps)

NextMgrClose == NextMgr \/ CloseCall \/ AttachCall

SpecMgrClose == InitMgrClose /\ [][NextMgrClose]_vars

\* What cleanup leaves behind, with the connections.
Closed(s) == CleanedUp(s) /\ s.connections = {}

\* Task t returns from cleanup in this step.
CleanupReturns(t) ==
    /\ task[t].pc \in {"cl_lock", "cl_wait"}
    /\ task'[t].pc \notin {"cl_lock", "cl_wait"}

\* C29: every call of cleanup, the first and the later ones, leaves the session
\* cancelled, without PTY, child and connections, and inactive when it returns; a call
\* on a session that an earlier call has left so returns at once and changes nothing.
C29_SecondCleanupIsNoOp ==
    [][\A t \in Tasks :
          /\ CleanupReturns(t) => Closed(sess')
          /\ (CleanupReturns(t) /\ sess.cleanups > 0 /\ Closed(sess))
                => (sess' = [sess EXCEPT !.cleanups = @ + 1] /\ proc' = proc)]_vars

\* Two calls of cleanup have returned, the second begun while the first waited for the
\* child.
C29_Witness ==
    /\ sess.cleanups = 2
    /\ Closed(sess)
    /\ sess.overlapped

(***************************************************************************)
(* Specification of the working-directory tracking: a session made by      *)
(* CreateSession(name, workingDir) with or without an event handler reads  *)
(* outputs with hints.                                                     *)
(***************************************************************************)
WorkDirs == {<<>>, HomeDir, <<"tmp">>, <<"a", "src">>, <<"b", "src">>}
GivenNames == {"", "work", "src"}

InitWorkdir ==
    /\ RingIdle
    /\ SBIdle
    /\ MgrIdle
    /\ HFIdle
    /\ HistIdle
    /\ InputIdle
    /\ ConnIdle
    /\ SrvIdle
    /\ RegIdle
    /\ CoIdle
    /\ HookIdle
    /\ ApiIdle
    /\ SuppressIdle
    /\ NameIdle
    /\ SeqIdle
    /\ \E dir \in WorkDirs : \E name \in GivenNames : \E handler \in BOOLEAN :
         wd = [NewWorkdir EXCEPT
                  !.currentWorkingDir = dir,
                  !.Name = IF name = "" THEN getDirectoryName(dir) ELSE name,
                  !.eventHandler = handler]

\* processRawPTYData, lines 492-495, for an output with the hints v, i, o and t.
WdOutput ==
    \E v, o \in WorkDirs \cup {NoDir} : \E i, t \in {NoDir, <<"tmp">>} :
        LET output == [vscode |-> v, iterm2 |-> i, osc7 |-> o, title |-> t] IN
        /\ wd.outputs < MaxWdOutputs
        /\ wd' = [(IF output # NoHints THEN checkWorkingDirectoryChange(wd, output) ELSE wd)
                  EXCEPT !.outputs = @ + 1,
                         !.parsed = parseWorkingDirectory(output),
                         !.dirBefore = wd.currentWorkingDir,
                         !.nameBefore = wd.Name,
                         !.eventsBefore = Len(wd.events)]
        /\ UNCHANGED wdOther

NextWorkdir == WdOutput

SpecWorkdir == InitWorkdir /\ [][NextWorkdir]_vars

\* The last output had a hint whose directory is not the one the session had.
DirectoryChanged == wd.outputs > 0 /\ wd.parsed # NoDir /\ wd.parsed # wd.dirBefore

\* The events the last output has made.
NewEvents == SubSeq(wd.events, wd.eventsBefore + 1, Len(wd.events))

\* C30 as stated: one name-change event for every hint with another directory.
C30_Original ==
    DirectoryChanged
        => /\ wd.currentWorkingDir = wd.parsed
           /\ wd.Name = getDirectoryName(wd.parsed)
           /\ Len(NewEvents) = 1
           /\ NewEvents[1].workingDir = wd.parsed

\* C30: a hint with another directory sets the current directory and the name derived
\* from it; exactly one name-change event with the new name and directory is emitted
\* when that name differs from the name the session had and a handler is set, and no
\* event otherwise.
C30_NameEventWhenNameDiffers ==
    DirectoryChanged
        => /\ wd.currentWorkingDir = wd.parsed
           /\ wd.Name = getDirectoryName(wd.parsed)
           /\ IF wd.Name # wd.nameBefore /\ wd.eventHandler
              THEN NewEvents = <<[oldName |-> wd.nameBefore, newName |-> wd.Name,
                                  workingDir |-> wd.parsed]>>
              ELSE NewEvents = <<>>

\* An output changed the directory and the name and made its event.
C30_Witness ==
    /\ DirectoryChanged
    /\ wd.Name # wd.nameBefore
    /\ Len(NewEvents) = 1
    /\ wd.parsed = <<"tmp">>
    /\ wd.Name = "tmp"

(***************************************************************************)
(* Specification of the handler invocations of the reader task: outputs    *)
(* with or without a working-directory hint are broadcast and may rename   *)
(* the session while SetEventHandler replaces the handler.                 *)
(***************************************************************************)
HintNames == {"", "tmp", "src"}
Handlers == {NoHandler, TheHandler}

InitName ==
    /\ RingIdle
    /\ SBIdle
    /\ MgrIdle
    /\ HFIdle
    /\ HistIdle
    /\ InputIdle
    /\ ConnIdle
    /\ SrvIdle
    /\ RegIdle
    /\ CoIdle
    /\ HookIdle
    /\ ApiIdle
    /\ SuppressIdle
    /\ WorkdirIdle
    /\ SeqIdle
    /\ \E h \in Handlers :
         nm = [NewNameChange EXCEPT !.eventHandler = h, !.Name = "home"]

\* processRawPTYData, lines 476-490: a read of the PTY is recorded under the session
\* lock; hint is the name of the directory its hint carries ("" without a hint).
NameOutput ==
    \E hint \in HintNames :
        /\ nm.pc = "idle"
        /\ nm.outputs < MaxNameOutputs
        /\ CanLock(nm.mu)
        /\ nm' = [nm EXCEPT !.mu = WithLock(@, NameTask), !.pc = "bd_snapshot",
                            !.hint = hint, !.outputs = @ + 1]
        /\ UNCHANGED nmOther

\* broadcastData, lines 407-412: the handler is read under the read lock.
NameSnapshot ==
    /\ nm.pc = "bd_snapshot"
    /\ CanRLock(nm.mu)
    /\ nm' = [nm EXCEPT !.mu = ReadHandler(@, NameTask), !.handler = nm.eventHandler,
                        !.pc = "bd_call"]
    /\ UNCHANGED nmOther

\* broadcastData, lines 421-426, and processRawPTYData, lines 492-495, with
\* checkWorkingDirectoryChange, lines 44-48: OnTerminalData is invoked; a hint with
\* another name goes on to onSessionNameChange.
NameCallData ==
    /\ nm.pc = "bd_call"
    /\ nm' = [nm EXCEPT
                !.calls = IF nm.handler # NoHandler
                          THEN Append(@, Invocation(nm, "OnTerminalData", nm.handler, "locked"))
                          ELSE @,
                !.handler = NoHandler,
                !.pc = IF nm.hint # "" /\ nm.hint # nm.Name THEN "nc_old" ELSE "idle"]
    /\ UNCHANGED nmOther

\* onSessionNameChange, lines 206-208: oldName is read under the read lock.
NameReadOld ==
    /\ nm.pc = "nc_old"
    /\ CanRLock(nm.mu)
    /\ nm' = [nm EXCEPT !.mu = WithRLock(@, NameTask), !.oldName = nm.Name, !.pc = "nc_set"]
    /\ UNCHANGED nmOther

\* onSessionNameChange, lines 210-212: the name is set under the lock.
NameSet ==
    /\ nm.pc = "nc_set"
    /\ CanLock(nm.mu)
    /\ nm' = [nm EXCEPT !.mu = WithLock(@, NameTask), !.Name = nm.hint, !.pc = "nc_check"]
    /\ UNCHANGED nmOther

\* onSessionNameChange, line 216: s.eventHandler is compared with nil, no lock taken.
NameCheck ==
    /\ nm.pc = "nc_check"
    /\ \E h \in UnlockedRead(nm) :
         nm' = [nm EXCEPT !.pc = IF h # NoHandler THEN "nc_call" ELSE "idle"]
    /\ UNCHANGED nmOther

\* onSessionNameChange, line 217: s.eventHandler is read again and
\* OnTerminalNameChanged invoked on it.
NameCall ==
    /\ nm.pc = "nc_call"
    /\ \E h \in UnlockedRead(nm) :
         nm' = [nm EXCEPT
                  !.calls = Append(@, Invocation(nm, "OnTerminalNameChanged", h, "unlocked")),
                  !.pc = "idle"]
    /\ UNCHANGED nmOther

\* SetEventHandler, lines 265-266: the session lock is taken for the write.
NameSetHandlerLock ==
    \E h \in Handlers :
        /\ nm.arg = "none"
        /\ nm.sets < MaxNameSets
        /\ CanLock(nm.mu)
        /\ nm' = [nm EXCEPT !.mu = Lock(@, Client), !.arg = h, !.sets = @ + 1]
        /\ UNCHANGED nmOther

\* SetEventHandler, lines 266-267: the slot is written and the lock released.
NameSetHandlerWrite ==
    /\ nm.arg # "none"
    /\ nm' = [nm EXCEPT !.mu = Unlock(@, Client), !.eventHandler = nm.arg, !.arg = "none"]
    /\ UNCHANGED nmOther

NextName ==
    \/ NameOutput
    \/ NameSnapshot
    \/ NameCallData
    \/ NameReadOld
    \/ NameSet
    \/ NameCheck
    \/ NameCall
    \/ NameSetHandlerLock
    \/ NameSetHandlerWrite

SpecName == InitName /\ [][NextName]_vars

\* C31: every handler invocation is made by a task that holds no lock, on a handler
\* that was read under the lock and found not nil.
C31_SnapshotThenCall ==
    \A i \in 1..Len(nm.calls) :
        /\ ~nm.calls[i].held
        /\ nm.calls[i].snapshot = "locked"
        /\ nm.calls[i].handler # NoHandler

\* OnTerminalNameChanged was invoked on a nil handler: the slot was cleared between
\* the comparison with nil and the call.
NameChangedOnNil ==
    \E i \in 1..Len(nm.calls) :
        nm.calls[i].method = "OnTerminalNameChanged" /\ nm.calls[i].handler = NoHandler

(***************************************************************************)
(* Further claims about the Manager and the Session.                       *)
(***************************************************************************)
\* C32: whenever the session lock is free, the session is active with its PTY and its
\* child-process handle both set, or not active with both nil.
C32_ActiveIffHandles ==
    CanLock(sMu) =>
        IF sess.isActive
        THEN sess.PTY # 0 /\ sess.Cmd # 0
        ELSE sess.PTY = 0 /\ sess.Cmd = 0

\* A reader task holds bytes it has read from the PTY: it is in processRawPTYData,
\* in broadcastData or inside the handler it invoked.
Pumping(g) ==
    \/ task[Reader(g)].pc \in {"r_process", "r_call"}
    \/ InHandler(Reader(g))

\* C33: at most one reader task pumps the PTY output of the session at any time.
C33_OneReader == Cardinality({g \in Starts : Pumping(g)}) <= 1

\* CreateSession has returned the session and the child of a PTY start has exited.
ChildExited == At(Creator, "done") /\ \E g \in Starts : proc[g].child = "exited"

\* The session has left the registry, is cleaned up and its Closed event was delivered,
\* and no waiter is held at the created latch.
Reaped ==
    /\ NotInRegistry(mgr)
    /\ CleanedUp(sess)
    /\ Len(closed) > 0
    /\ \A g \in Starts : ~At(Waiter(g), "w_onexit")

\* C34: while a handler stays installed, the exit of the child of a session that
\* CreateSession has returned leads to the session removed from the registry, cleaned up and
\* OnTerminalSessionClosed delivered, with no waiter left waiting in onExit.
C34_ExitReaps == [](mgr.eventHandler = TheHandler) => (ChildExited ~> Reaped)

\* C34 witness: no call was made by the client, the child exited, and the exit path
\* has removed the session, cleaned it up and delivered Closed.
C34_Witness ==
    /\ clientOps = MaxClientOps
    /\ At(Client, "idle")
    /\ task[Waiter(1)].pc = "done"
    /\ ChildExited
    /\ Reaped
    /\ \A i \in 1..Len(closed) : closed[i].by = "exit"

\* C35: OnTerminalSessionClosed is invoked at most once for the session, whichever of
\* the DeleteSession calls and the auto-reaps of the exit path come first.
C35_ClosedAtMostOnce == Len(closed) <= 1

\* C35 witness: DeleteSession and the auto-reap both ran for the session; DeleteSession
\* detached it and notified, and the waiter, which had seen the child exit, went
\* through onExit and found the session absent.
C35_Witness ==
    /\ Len(closed) = 1
    /\ closed[1].by = "delete"
    /\ task[Waiter(1)].pc = "done"
    /\ task[Waiter(1)].cmd = 1
    /\ proc[1].waitDone = "closed"
    /\ createdDone = "closed"

\* C36: OnTerminalSessionClosed delivered by a DeleteSession call at a moment when
\* OnTerminalSessionCreated had not been invoked for the session is not followed by
\* OnTerminalSessionCreated.
C36_ClosedNotBeforeCreated ==
    \A i \in 1..Len(closed) :
        (closed[i].by = "delete" /\ closed[i].created = "none") => created = "none"

(***************************************************************************)
(* Specification of the Manager with one session and a client that may     *)
(* also call Manager.Cleanup, as Server.Close does.                        *)
(***************************************************************************)
\* Cleanup: under the manager lock the sessions are collected and the map and the
\* order list emptied; then session.cleanup() is called for each, and no handler is
\* invoked.
CleanupCall ==
    /\ At(Client, "idle")
    /\ clientOps > 0
    /\ CanLock(mMu)
    /\ clientOps' = clientOps - 1
    /\ mMu' = WithLock(mMu, Client)
    /\ mgr' = CleanupSessions(mgr)
    /\ task' = IF SessionId \in mgr.sessions THEN Call(task, Client, "cl_lock", "idle")
               ELSE task
    /\ UNCHANGED <<sess, sMu, createdDone, proc, created, closed, delivered, hdone,
                   outputs, exitedEarly, mgrOther>>

NextMgrCleanup == NextMgr \/ CleanupCall

SpecMgrCleanup == InitMgr /\ [][NextMgrCleanup]_vars /\ FairMgr

\* C37 as stated: while a handler stays installed, a session for which
\* OnTerminalSessionCreated was delivered and which has left the registry gets
\* OnTerminalSessionClosed.
C37_Original ==
    [](mgr.eventHandler = TheHandler) =>
        ((created = "returned" /\ NotInRegistry(mgr)) ~> Len(closed) > 0)

\* A task has detached the session in DeleteSession or in the auto-reap, with a
\* handler installed.
Detached == \E t \in Tasks : task[t].dh # NoHandler

\* C37: a session that DeleteSession or the auto-reap has removed from the registry
\* while a handler was installed gets OnTerminalSessionClosed.
C37_ClosedAfterDetach == Detached ~> Len(closed) > 0

\* C37 witness: OnTerminalSessionCreated had returned when DeleteSession removed the
\* session, and OnTerminalSessionClosed was delivered by that call, which has returned.
C37_Witness ==
    /\ created = "returned"
    /\ NotInRegistry(mgr)
    /\ closed = <<[by |-> "delete", created |-> "returned"]>>
    /\ ~Detached
    /\ At(Client, "idle")
    /\ clientOps < MaxClientOps

(***************************************************************************)
(* Specification of the sequence numbers of one started session: the PTY   *)
(* was started at time 0, reads arrive as time passes, and the history is  *)
(* cleared now and then.                                                   *)
(***************************************************************************)
InitSeq ==
    /\ RingIdle
    /\ SBIdle
    /\ MgrIdle
    /\ HFIdle
    /\ HistIdle
    /\ InputIdle
    /\ ConnIdle
    /\ SrvIdle
    /\ RegIdle
    /\ CoIdle
    /\ HookIdle
    /\ ApiIdle
    /\ SuppressIdle
    /\ WorkdirIdle
    /\ NameIdle
    /\ sq = [NewSeqSession EXCEPT
                !.ringBuffer = NewTerminalRingBuffer(SeqRingSize),
                !.isResizing = TRUE,
                !.resizeEndTime = InitialResizeSuppress]

SeqTick ==
    /\ sq.now < MaxSeqTime
    /\ sq' = [sq EXCEPT !.now = @ + 1]
    /\ UNCHANGED sqOther

\* readPTYOutput has read one byte or two.
SeqOutput ==
    \E len \in 1..2 :
        /\ sq.reads < MaxSeqReads
        /\ sq' = [readAndBroadcast(sq, Payload(sq.reads + 1, len)) EXCEPT !.reads = @ + 1]
        /\ UNCHANGED sqOther

\* clear_history.
SeqClear ==
    /\ sq.clears < MaxSeqClears
    /\ sq' = [ClearHistory(sq) EXCEPT !.clears = @ + 1]
    /\ UNCHANGED sqOther

NextSeq == SeqTick \/ SeqOutput \/ SeqClear

SpecSeq == InitSeq /\ [][NextSeq]_vars

\* C38: a read that is in the history and was broadcast has the same sequence number
\* on its history chunk and on its data event.
C38_SameSequence ==
    \A i \in 1..Len(sq.events) :
        LET cs == ReadAllChunks(sq.ringBuffer) IN
        \A j \in 1..Len(cs) :
            cs[j].Data = sq.events[i].data => cs[j].Sequence = sq.events[i].sequence

\* The same with no read suppressed and no history cleared so far.
SameSequenceUndisturbed ==
    (sq.clears = 0 /\ \A i \in 1..Len(sq.events) : ~sq.events[i].skipped)
        => C38_SameSequence

(***************************************************************************)
(* A further claim about the websocket streams and the connections.        *)
(***************************************************************************)
\* C39: the connection of a connId is not removed from the session while a registered
\* stream carries that connId.
C39_NoLateRemoval ==
    [][\A c \in DOMAIN cn.connections \ DOMAIN cn'.connections :
          \A k \in wsBySession(srv) : srv.clients[k].connID # c]_vars

(***************************************************************************)
(* The coordinator with the replies of the transport in flight: the server *)
(* answers a listSessions request with the sessions it has at that moment, *)
(* and the coordinator gets the answer later.  Ids are never used twice.   *)
(***************************************************************************)
InitCoStale ==
    /\ RingIdle
    /\ SBIdle
    /\ MgrIdle
    /\ HFIdle
    /\ HistIdle
    /\ InputIdle
    /\ ConnIdle
    /\ SrvIdle
    /\ RegIdle
    /\ HookIdle
    /\ ApiIdle
    /\ SuppressIdle
    /\ WorkdirIdle
    /\ NameIdle
    /\ SeqIdle
    /\ co = [NewCoordinator EXCEPT !.server = {"a"}, !.made = {"a"}]

\* The server answers the listSessions request of line 158 with the sessions it has.
CoListServed ==
    \E seq \in DOMAIN co.refreshes :
        /\ co.refreshes[seq] = "listing"
        /\ co.lists[seq] = NotServed
        /\ co' = [co EXCEPT !.lists[seq] = co.server]
        /\ UNCHANGED coOther

\* The answer reaches the coordinator, lines 158-176: an error, or the list the server
\* made.
CoServedReply ==
    \E seq \in DOMAIN co.refreshes : \E ok \in BOOLEAN :
        /\ co.refreshes[seq] = "listing"
        /\ co.lists[seq] # NotServed
        /\ co' = refreshReply(co, seq, ok, co.lists[seq])
        /\ UNCHANGED coOther

\* createSession, lines 182-205: the transport has made a session with a new id, and
\* the call returns it.
CoCreateFresh ==
    \E id \in CoIds \ co.made :
        /\ co' = [setSessions([co EXCEPT !.server = @ \cup {id}],
                              FilterPending(co.sessions \cup {id}, co.pendingDeletions),
                              co.renamed \ {id})
                  EXCEPT !.made = @ \cup {id}, !.returned = @ \cup {id}]
        /\ UNCHANGED coOther

\* deleteSession(id), lines 243-255, for a session the snapshot shows and no earlier
\* call has named.
CoDeleteShown ==
    /\ CoDelete
    /\ \E id \in co.sessions :
           /\ \A j \in DOMAIN co.dels : co.dels[j].id # id
           /\ co'.pendingDeletions = co.pendingDeletions \cup {id}

NextCoStale ==
    \/ CoRefresh
    \/ CoListServed
    \/ CoServedReply
    \/ CoCreateFresh
    \/ CoDeleteShown
    \/ CoDeleteDone

SpecCoStale == InitCoStale /\ [][NextCoStale]_vars

\* C40: a list the server made before a createSession or deleteSession call completed
\* is not applied after the completion: the id of a deleteSession call that resolved is
\* in the snapshot only if the server has it, and a session createSession returned that
\* the server has and no deleteSession call hides is in the snapshot.
C40_NoStaleResult ==
    /\ \A k \in DOMAIN co.dels :
           (co.dels[k].pc = "resolved" /\ co.dels[k].id \in co.sessions)
               => co.dels[k].id \in co.server
    /\ \A id \in co.returned :
           (id \in co.server /\ id \notin co.pendingDeletions) => id \in co.sessions

\* The two halves of C40, apart.
DeletedStaysOut ==
    \A k \in DOMAIN co.dels :
        (co.dels[k].pc = "resolved" /\ co.dels[k].id \in co.sessions)
            => co.dels[k].id \in co.server

CreatedStaysIn ==
    \A id \in co.returned :
        (id \in co.server /\ id \notin co.pendingDeletions) => id \in co.sessions

====
